---- MODULE Spec2Model ----
(***************************************************************************)
(* Google Drive connector of dust: the incremental-sync engine             *)
(* (connectors/google_drive/temporal/activities.ts), modelled as a state   *)
(* machine over the mirror store (GoogleDriveFiles), the downstream index, *)
(* the persisted sync token (GoogleDriveSyncToken) and the remote change   *)
(* feed of one drive of one connector.                                     *)
(***************************************************************************)
EXTENDS Integers, Sequences, FiniteSets, TLC

\* ------------------------------------------------------------------ bounds
\* Longest change feed the remote drive produces.
MaxFeed == 3
\* Entries per changes.list page (the code asks for pageSize: 100).
PageSize == 2

\* Children per files.list page of syncFiles (the code asks for pageSize: 200).
FsPageSize == 2
\* Rows per findAll of garbageCollector (the code asks for limit: 100).
GcLimit == 2
\* Latest value of the wall clock.
MaxTime == 2
\* Last hour of the wall clock at which webhooks are renewed hour by hour.
MaxClock == 5
\* Webhooks the remote provider registers in all.
MaxHooks == 4
\* Rows per findAll and per cleanup of renewWebhooks (its pageSize argument).
RwPageSize == 2
\* Workflow executions the orchestrator starts in all.
MaxRuns == 3
\* The children of the long folder and the stale rows among them.
MaxQueue == 11
MaxGcQueue == 6

\* ------------------------------------------------------------- vocabulary
\* An optional string (string | undefined) is a sequence of length 0 or 1.
Undefined == <<>>
Some(v) == <<v>>

FOLDER_MIME == "application/vnd.google-apps.folder"
DOC_MIME == "application/vnd.google-apps.document"
IMAGE_MIME == "image/png"

\* The remote folder tree above the changed objects: F1 and F2 are roots of
\* the drive, sub1 is a folder inside F1.
RemoteParentOf(id) == IF id = "sub1" THEN "F1" ELSE ""

\* A drive_v3.Schema$File as delivered in a change entry; "" is a missing field.
RemoteFile(id, name, mime, parent, trashed) ==
    [id |-> id, name |-> name, mimeType |-> mime, parents |-> parent,
     trashed |-> trashed, createdTime |-> "t0"]

ChDrive == [changeType |-> "drive", file |-> Undefined]
ChUnsupported ==
    [changeType |-> "file",
     file |-> Some(RemoteFile("doc1", "doc1", IMAGE_MIME, "F1", FALSE))]
ChUpdate ==
    [changeType |-> "file",
     file |-> Some(RemoteFile("doc1", "doc1", DOC_MIME, "F1", FALSE))]
ChTrash ==
    [changeType |-> "file",
     file |-> Some(RemoteFile("doc1", "doc1", DOC_MIME, "F1", TRUE))]
ChMoved ==
    [changeType |-> "file",
     file |-> Some(RemoteFile("doc1", "doc1", DOC_MIME, "F2", FALSE))]
ChFolder ==
    [changeType |-> "file",
     file |-> Some(RemoteFile("sub1", "sub1", FOLDER_MIME, "F1", FALSE))]
ChFolderTrash ==
    [changeType |-> "file",
     file |-> Some(RemoteFile("sub1", "sub1", FOLDER_MIME, "F1", TRUE))]
ChInvalid ==
    [changeType |-> "file",
     file |-> Some(RemoteFile("doc1", "", DOC_MIME, "F1", FALSE))]

\* The change entries the remote drive can emit.
ChangeSet ==
    {ChDrive, ChUnsupported, ChUpdate, ChTrash, ChMoved, ChFolder,
     ChFolderTrash, ChInvalid}

VARIABLES
    feed,       \* remote: the drive's change list, oldest first
    now,        \* wall clock (new Date())
    watched,    \* GoogleDriveFolders: folder ids selected for sync
    mirror,     \* GoogleDriveFiles: driveFileId -> row
    index,      \* downstream data source: document ids present
    syncToken,  \* GoogleDriveSyncToken.syncToken of the drive
    pc,         \* position of the incrementalSync invocation
    argTok,     \* its nextPageToken argument
    cur,        \* the page token it lists with
    page,       \* the changes.list response it is consuming
    i,          \* index of the next change of the page
    exc,        \* exception in flight to the catch block
    result,     \* outcome of the last invocation, as the orchestrator sees it
    lastCalls,  \* external calls issued by the last step
    frontier,   \* history: every entry from the first persisted token up to
                \* (not including) this position has been fully applied
    chain,      \* history: the run of consecutive invocations since Init
    store0,     \* history: mirror store and index at Init
    remote,     \* remote: the objects of the drive, by id
    foreign,    \* GoogleDriveFiles: the rows of another connector
    gc,         \* the garbageCollector / shouldGarbageCollect invocation
    fs,         \* the syncFiles / markFolderAsVisited invocation
    webhooks,   \* GoogleDriveWebhook: webhook id -> row
    created,    \* number of webhooks ever registered with the remote provider
    rw,         \* the renewWebhooks invocation
    errorType,  \* the connector's sync status: "none" or the error reported
    runs,       \* orchestrator: the workflow executions it knows
    limiter,    \* rate limiter: time of the last launch it let through
    launch      \* the launcher calls in flight, by caller

\* The state of the incremental-sync engine alone.
syncVars ==
    <<feed, syncToken, pc, argTok, cur, page, i, exc, result, lastCalls,
      frontier, chain, store0>>

\* The state only the full-sync engine and the garbage collector use.
walkVars == <<remote, foreign, gc, fs>>

\* The state of the webhook lifecycle manager.
hookVars == <<webhooks, created, rw, errorType>>

\* The state of the launchers and of the workflow orchestrator.
launchVars == <<runs, limiter, launch>>

\* The state the sync engines and the garbage collector never touch.
opsVars == <<hookVars, launchVars>>

vars ==
    <<feed, now, watched, mirror, index, syncToken, pc, argTok, cur, page, i,
      exc, result, lastCalls, frontier, chain, store0, remote, foreign, gc,
      fs, webhooks, created, rw, errorType, runs, limiter, launch>>

\* --------------------------------------------------------------- helpers
\* temporal/utils getDocumentId: the downstream document id of a drive id.
getDocumentId(driveFileId) == "gdrive-" \o driveFileId

\* temporal/mime_types getMimeTypesToSync (pdf disabled).
getMimeTypesToSync == {DOC_MIME, FOLDER_MIME}

\* temporal/utils driveObjectToDustType: the canonical object of a remote file.
driveObjectToDustType(file) ==
    [id |-> file.id, name |-> file.name, mimeType |-> file.mimeType,
     parent |-> file.parents, trashed |-> file.trashed]

\* lib/hierarchy getFileParentsMemoized: the ancestor chain of an object,
\* resolved through parentId against the remote source.
RECURSIVE AncestorsOf(_)
AncestorsOf(id) ==
    IF id = "" THEN <<>> ELSE <<id>> \o AncestorsOf(RemoteParentOf(id))

getFileParentsMemoized(driveFile) == AncestorsOf(driveFile.parent)

\* Faulty variant of objectIsInFolders: only the direct parent is tested.
objectIsInFoldersParentOnly(driveFile, foldersIds) ==
    driveFile.parent \in foldersIds

objectIsInFolders(driveFile, foldersIds) ==
    LET parents == getFileParentsMemoized(driveFile)
    IN  \E k \in 1..Len(parents) : parents[k] \in foldersIds

getFoldersToSync == watched

\* GoogleDriveFiles.upsert, keyed by driveFileId.
Upsert(m, id, row) ==
    [x \in (DOMAIN m) \cup {id} |-> IF x = id THEN row ELSE m[x]]

\* row.destroy()
Destroy(m, id) == [x \in (DOMAIN m) \ {id} |-> m[x]]

FileRow(file, t) ==
    [dustFileId |-> getDocumentId(file.id), name |-> file.name,
     mimeType |-> file.mimeType, parentId |-> file.parent, lastSeenTs |-> t]

\* temporal/file syncOneFile: pushes the content downstream and upserts the row.
syncOneFile(m, idx, file, t) ==
    [mirror |-> Upsert(m, file.id, FileRow(file, t)),
     index |-> idx \cup {getDocumentId(file.id)}]

\* Faulty variant of deleteFile: the row is destroyed, the downstream content
\* stays.
deleteFileKeepsContent(m, idx, id) == [mirror |-> Destroy(m, id), index |-> idx]

deleteFile(m, idx, id) ==
    [mirror |-> Destroy(m, id),
     index |-> IF m[id].mimeType # FOLDER_MIME
               THEN idx \ {m[id].dustFileId}
               ELSE idx]

deleteOneFile(m, idx, file) ==
    IF file.id \notin DOMAIN m
    THEN [mirror |-> m, index |-> idx]
    ELSE deleteFile(m, idx, file.id)

\* The remote provider's changes.list at page token t: one page of at most
\* PageSize entries; nextPageToken while more remain, newStartPageToken on
\* the last page.
changesList(f, t) ==
    LET last == t + PageSize - 1
    IN  IF last < Len(f)
        THEN [changes |-> SubSeq(f, t, last),
              nextPageToken |-> Some(last + 1),
              newStartPageToken |-> Undefined]
        ELSE [changes |-> SubSeq(f, t, Len(f)),
              nextPageToken |-> Undefined,
              newStartPageToken |-> Some(Len(f) + 1)]

\* The remote provider's changes.getStartPageToken: the end of the feed.
getStartPageToken(f) == Len(f) + 1

\* ---------------------------------------------- one change entry (loop body)
\* Faulty variant of ChangeBranch: the MIME type is not tested.
ChangeBranchAnyMime(change, foldersIds) ==
    IF change.changeType # "file" \/ change.file = Undefined THEN "skip"
    ELSE LET cf == change.file[1]
             file == driveObjectToDustType(cf)
         IN  IF cf.id = "" THEN "skip"
             ELSE IF ~objectIsInFolders(file, foldersIds) \/ cf.trashed
             THEN "delete"
             ELSE IF cf.createdTime = "" \/ cf.name = "" \/ cf.id = ""
             THEN "invalid"
             ELSE IF file.mimeType = FOLDER_MIME THEN "folder"
             ELSE "sync"

\* The branch of the loop body of incrementalSync an entry takes.
ChangeBranch(change, foldersIds) ==
    IF change.changeType # "file" \/ change.file = Undefined THEN "skip"
    ELSE LET cf == change.file[1]
             file == driveObjectToDustType(cf)
         IN  IF cf.mimeType = "" \/ cf.mimeType \notin getMimeTypesToSync
             THEN "skip"
             ELSE IF cf.id = "" THEN "skip"
             ELSE IF ~objectIsInFolders(file, foldersIds) \/ cf.trashed
             THEN "delete"
             ELSE IF cf.createdTime = "" \/ cf.name = "" \/ cf.id = ""
             THEN "invalid"
             ELSE IF file.mimeType = FOLDER_MIME THEN "folder"
             ELSE "sync"

\* Faulty variant of ApplyChange: a folder is content-synced like a file.
ApplyChangeFoldersSynced(m, idx, change, foldersIds, t) ==
    LET branch == ChangeBranch(change, foldersIds)
        file == driveObjectToDustType(change.file[1])
    IN  CASE branch = "delete" -> deleteOneFile(m, idx, file)
          [] branch \in {"folder", "sync"} -> syncOneFile(m, idx, file, t)
          [] OTHER -> [mirror |-> m, index |-> idx]

\* The effect of the loop body on the mirror store and the downstream index.
ApplyChange(m, idx, change, foldersIds, t) ==
    LET branch == ChangeBranch(change, foldersIds)
        file == driveObjectToDustType(change.file[1])
    IN  CASE branch = "delete" -> deleteOneFile(m, idx, file)
          [] branch = "folder" ->
                [mirror |-> Upsert(m, file.id, FileRow(file, t)), index |-> idx]
          [] branch = "sync" -> syncOneFile(m, idx, file, t)
          [] OTHER -> [mirror |-> m, index |-> idx]

\* External calls the loop body issues on a branch.
BranchCalls(branch, m, idx, change) ==
    CASE branch = "skip" -> {}
      [] branch = "delete" ->
            IF change.file[1].id \in DOMAIN m
               /\ m[change.file[1].id].mimeType # FOLDER_MIME
            THEN {"files.get", "index.delete"}
            ELSE {"files.get"}
      [] branch = "folder" -> {"files.get"}
      [] branch = "sync" -> {"files.get", "index.upsert"}
      [] OTHER -> {"files.get"}

\* ------------------------------------------------------- remote objects
\* lastSeenTs of a row that never had one (null in the database).
NullTs == -1

\* The objects of the drive: the folders F1 and F2 at its root, the folder
\* sub1 inside F1, and two documents.
RemoteIds == {"F1", "F2", "sub1", "doc1", "doc2"}

RemoteMimeOf(id) == IF id \in {"F1", "F2", "sub1"} THEN FOLDER_MIME ELSE DOC_MIME

\* status: "live", "trashed" (in the bin) or "gone" (deleted for good, or no
\* longer shared with the connector: the provider answers 404).
RemoteObject(status, parent) == [status |-> status, parent |-> parent]

\* An object is reported trashed when it or a folder above it is in the bin.
RECURSIVE RemoteTrashed(_, _)
RemoteTrashed(r, id) ==
    /\ id # ""
    /\ \/ r[id].status = "trashed"
       \/ RemoteTrashed(r, r[id].parent)

\* lib/google_drive_api getGoogleDriveObject: the object of an id, or nothing
\* on a 404.
getGoogleDriveObject(r, id) ==
    IF id \notin DOMAIN r \/ r[id].status = "gone"
    THEN Undefined
    ELSE Some([id |-> id, name |-> id, mimeType |-> RemoteMimeOf(id),
               parent |-> r[id].parent, trashed |-> RemoteTrashed(r, id)])

\* ----------------------------------------------------------------- state
NoPage ==
    [changes |-> <<>>, nextPageToken |-> Undefined,
     newStartPageToken |-> Undefined]

\* Outcomes of an invocation: kind is "returned" (with the value), "raised"
\* or "crashed"; error is the exception the invocation caught, if any.
Outcome(kind, value, error) == [kind |-> kind, value |-> value, error |-> error]

Fresh == [st |-> "fresh", from |-> 0, n |-> 0]
Broken == [st |-> "broken", from |-> 0, n |-> 0]

SeedRow(id, mime, parent) ==
    [dustFileId |-> getDocumentId(id), name |-> id, mimeType |-> mime,
     parentId |-> parent, lastSeenTs |-> 0]

\* Mirror stores a previous full sync of F1 can have left behind.
SeedMirrors ==
    { <<>>,
      [x \in {"doc1", "sub1"} |->
          IF x = "doc1" THEN SeedRow("doc1", DOC_MIME, "F1")
          ELSE SeedRow("sub1", FOLDER_MIME, "F1")] }

IndexOf(m) ==
    {m[x].dustFileId : x \in {y \in DOMAIN m : m[y].mimeType # FOLDER_MIME}}

\* Every object of the drive is live and in its first folder.
RemoteInit ==
    [id \in RemoteIds |->
        RemoteObject("live", IF id = "doc1" THEN "F1"
                             ELSE IF id = "doc2" THEN "sub1"
                             ELSE RemoteParentOf(id))]

\* What garbageCollector or shouldGarbageCollect handed back to its caller:
\* kind is "returned" or "raised", count the number garbageCollector returned,
\* flag the boolean shouldGarbageCollect returned.
GcResult(op, kind, count, flag) ==
    [op |-> op, kind |-> kind, count |-> count, flag |-> flag]

\* What syncFiles or markFolderAsVisited handed back to its caller.
FsResult(op, kind, nextPageToken, count, subfolders) ==
    [op |-> op, kind |-> kind, nextPageToken |-> nextPageToken,
     count |-> count, subfolders |-> subfolders]

\* { nextPageToken: null, count: 0, subfolders: [] }
FsEmpty == FsResult("syncFiles", "returned", Undefined, 0, {})

\* No syncFiles invocation in flight.  folder, startSyncTs, token: the
\* arguments of the last invocation; files: the page files.list answered;
\* next: its nextPageToken; todo: the children whose task has not run yet;
\* results: the children whose task returned true; failed: a task has thrown;
\* done (history): the children whose task ran to its end; calls (history):
\* the remote calls of the invocation; walked (history): the folders whose
\* children files.list has answered since the walk began.
FsIdle(res) ==
    [pc |-> "idle", folder |-> "", startSyncTs |-> 0, token |-> Undefined,
     files |-> <<>>, next |-> Undefined, todo |-> {}, done |-> {},
     results |-> {}, failed |-> FALSE, calls |-> {}, walked |-> {},
     result |-> res]

\* No garbageCollector invocation in flight.  files: the rows findAll selected,
\* as <<connector, driveFileId>>; todo: those whose task has not run yet;
\* folders: selectedFolders; done (history): the rows whose task ran to its
\* end; deleted (history): the rows the call destroyed.
GcIdle(res) ==
    [pc |-> "idle", cutoff |-> 0, files |-> {}, todo |-> {}, folders |-> {},
     failed |-> FALSE, done |-> {}, deleted |-> {}, result |-> res]

\* ------------------------------------------------ webhooks and launchers
\* Times of the webhook table are in hours, like the intervals the code names.
\* The lookahead of the selection: webhooks "about to expire in the next
\* hour".
GOOGLE_DRIVE_WEBHOOK_RENEW_MARGIN_MS == 1
\* NOW() + INTERVAL '2 hour': how far a failed renewal pushes renewAt.
RenewDeferral == 2
\* now() - INTERVAL '3 day': how long a renewed webhook outlives its expiry.
SweepRetention == 72
\* The lifetime the remote provider grants a webhook channel.
WebhookLife == 4
\* config GDRIVE_INCREMENTAL_SYNC_DEBOUNCE_SEC, in ticks of the clock: the
\* time frame of the rate limiter of the incremental-sync launcher.
GDRIVE_INCREMENTAL_SYNC_DEBOUNCE_SEC == 1

\* The drives the connector has a webhook on: the shared drives F1 and F2 (the
\* id of a shared drive is also the id of its root folder).
DriveIds == {"F1", "F2"}

\* A GoogleDriveWebhook row; renewedByWebhookId is null (Undefined) or the id
\* of the webhook that took over.
WebhookRow(driveId, expiresAt, renewAt, renewedByWebhookId) ==
    [driveId |-> driveId, expiresAt |-> expiresAt, renewAt |-> renewAt,
     renewedByWebhookId |-> renewedByWebhookId]

\* The row of a webhook registered at time t: the channel expires one
\* lifetime later and is to be renewed one margin before that.
NewWebhookRow(driveId, t) ==
    WebhookRow(driveId, t + WebhookLife,
               t + WebhookLife - GOOGLE_DRIVE_WEBHOOK_RENEW_MARGIN_MS,
               Undefined)

\* No renewWebhooks invocation in flight.  list: the rows findAll selected, in
\* the order of the loop; k: the position of the row in hand; res: the value
\* ensureWebhookForDriveId returned; e: the exception in flight to the catch
\* block.  History of the pass: renewed, the <<old, new>> pairs it linked;
\* retired, the rows it destroyed for a lost drive; deferred, the rows it
\* pushed down the line; passed, the rows it left as they
\* were; swept, the rows the cleanup destroyed.  At pc "return" the pass is
\* over and Len(list) is the number it returns.
RwIdle ==
    [pc |-> "idle", list |-> <<>>, k |-> 0, res |-> Undefined, e |-> "none",
     renewed |-> {}, retired |-> {}, deferred |-> {}, passed |-> {},
     swept |-> {}]

\* The callers of the launchers: two request handlers of the connectors API.
Callers == {"a", "b"}

\* What a launcher returned: kind is "ok" (with the workflow id) or "err"
\* (with the error).
LaunchResult(kind, value) == [kind |-> kind, value |-> value]

\* No launcher call of this caller in flight.
LaunchIdle(res) ==
    [pc |-> "idle", op |-> "none", connectorId |-> "", fromTs |-> Undefined,
     result |-> res]

\* No webhook, no workflow, no launcher call: the state of the webhook manager
\* and of the orchestrator while only the sync engines are looked at.
HooksAtRest ==
    /\ webhooks = <<>>
    /\ created = 0
    /\ rw = RwIdle
    /\ errorType = "none"

LaunchAtRest ==
    /\ runs = [open |-> {}, started |-> 0, terminated |-> 0,
               signalledAt |-> <<>>]
    /\ limiter = <<>>
    /\ launch = [c \in Callers |-> LaunchIdle(LaunchResult("none", ""))]

OpsAtRest == HooksAtRest /\ LaunchAtRest

Init ==
    /\ feed = <<>>
    /\ now = 1
    /\ watched = {"F1"}
    /\ mirror \in SeedMirrors
    /\ index = IndexOf(mirror)
    /\ syncToken = Undefined
    /\ pc = "idle"
    /\ argTok = Undefined
    /\ cur = Undefined
    /\ page = NoPage
    /\ i = 0
    /\ exc = "none"
    /\ result = Outcome("none", Undefined, "none")
    /\ lastCalls = {}
    /\ frontier = Undefined
    /\ chain = Fresh
    /\ store0 = [mirror |-> mirror, index |-> index]
    /\ remote = RemoteInit
    /\ foreign = <<>>
    /\ gc = GcIdle(GcResult("none", "none", 0, FALSE))
    /\ fs = FsIdle(FsResult("none", "none", Undefined, 0, {}))
    /\ OpsAtRest

\* --------------------------------------------------------------- remote
\* The remote drive records one more change.
RemoteChange ==
    /\ Len(feed) < MaxFeed
    /\ \E c \in ChangeSet : feed' = Append(feed, c)
    /\ UNCHANGED <<now, watched, mirror, index, syncToken, pc, argTok, cur,
                   page, i, exc, result, lastCalls, frontier, chain, store0>>
    /\ UNCHANGED walkVars
    /\ UNCHANGED opsVars

\* ------------------------------------------------------- incrementalSync
\* Cursors the orchestrator can hand to an invocation: none, the cursor the
\* previous invocation returned, or the argument of the previous invocation
\* again (at-least-once redelivery).
CallerTokens ==
    {Undefined, argTok}
        \cup (IF result.kind = "returned" THEN {result.value} ELSE {})

\* The invocation continues the clean run iff it is the first one, started
\* without a cursor, or it is fed the cursor the previous one returned.
ChainOnInvoke(arg) ==
    IF chain.st = "fresh" /\ arg = Undefined
    THEN [chain EXCEPT !.st = "run"]
    ELSE IF chain.st = "run" /\ result.kind = "returned"
            /\ result.value # Undefined /\ arg = result.value
    THEN chain
    ELSE Broken

Begin(arg) ==
    /\ pc = "idle"
    /\ argTok' = arg
    /\ chain' = ChainOnInvoke(arg)
    /\ pc' = "start"
    /\ cur' = Undefined
    /\ page' = NoPage
    /\ i' = 0
    /\ exc' = "none"
    /\ result' = Outcome("running", Undefined, "none")
    /\ lastCalls' = {}
    /\ UNCHANGED <<feed, now, watched, mirror, index, syncToken, frontier,
                   store0>>
    /\ UNCHANGED walkVars
    /\ UNCHANGED opsVars

\* The orchestrator starts an invocation.
Invoke == \E arg \in CallerTokens : Begin(arg)

\* The workflow loop: no cursor first, then the cursor the previous invocation
\* returned, until one returns undefined or raises.
DrainInvoke ==
    \/ /\ chain.st = "fresh"
       /\ Begin(Undefined)
    \/ /\ chain.st = "run"
       /\ result.kind = "returned"
       /\ result.value # Undefined
       /\ Begin(result.value)

\* Faulty variant of getSyncPageToken: a start token is requested even when
\* one is persisted.
getSyncPageTokenAlwaysFresh(persisted, f) == Some(getStartPageToken(f))

\* getSyncPageToken: the persisted token if there is one, else a start token
\* requested from the remote provider.
getSyncPageToken(persisted, f) ==
    IF persisted # Undefined THEN persisted ELSE Some(getStartPageToken(f))

\* Faulty variant of StartCursor: the persisted token wins over the argument.
StartCursorPersistedFirst(arg, persisted, f) ==
    IF persisted # Undefined THEN persisted
    ELSE IF arg # Undefined THEN arg
    ELSE Some(getStartPageToken(f))

\* The page token incrementalSync lists with.
StartCursor(arg, persisted, f) ==
    IF arg # Undefined THEN arg ELSE getSyncPageToken(persisted, f)

\* The remote calls choosing the cursor makes.
StartCursorCalls(arg, persisted) ==
    IF arg = Undefined /\ persisted = Undefined
    THEN {"changes.getStartPageToken"}
    ELSE {}

\* An exception leaves the try block for the catch block.
Throw(e) ==
    /\ pc' = "catch"
    /\ exc' = e

ObtainCursor ==
    /\ pc = "start"
    /\ lastCalls' = StartCursorCalls(argTok, syncToken)
    /\ cur' = StartCursor(argTok, syncToken, feed)
    /\ pc' = "list"
    /\ chain' = IF chain.st = "run" /\ chain.from = 0
                THEN [chain EXCEPT !.from = cur'[1]]
                ELSE chain
    /\ UNCHANGED <<feed, now, watched, mirror, index, syncToken, argTok, page,
                   i, exc, result, frontier, store0>>
    /\ UNCHANGED walkVars
    /\ UNCHANGED opsVars

\* changes.getStartPageToken fails.
ObtainCursorFails ==
    /\ pc = "start"
    /\ StartCursorCalls(argTok, syncToken) # {}
    /\ lastCalls' = StartCursorCalls(argTok, syncToken)
    /\ \E e \in {"403", "other"} : Throw(e)
    /\ UNCHANGED <<feed, now, watched, mirror, index, syncToken, argTok, cur,
                   page, i, result, frontier, chain, store0>>
    /\ UNCHANGED walkVars
    /\ UNCHANGED opsVars

\* Faulty variant of ListChanges: the new start token is persisted as soon as
\* the page has been read, before its entries are applied.
ListChangesPersistFirst ==
    /\ pc = "list"
    /\ lastCalls' = {"changes.list"}
    /\ page' = changesList(feed, cur[1])
    /\ i' = 1
    /\ pc' = "loop"
    /\ syncToken' = IF page'.newStartPageToken # Undefined
                    THEN page'.newStartPageToken
                    ELSE syncToken
    /\ UNCHANGED <<feed, now, watched, mirror, index, argTok, cur, exc, result,
                   frontier, chain, store0>>
    /\ UNCHANGED walkVars
    /\ UNCHANGED opsVars

ListChanges ==
    /\ pc = "list"
    /\ lastCalls' = {"changes.list"}
    /\ page' = changesList(feed, cur[1])
    /\ i' = 1
    /\ pc' = "loop"
    /\ UNCHANGED <<feed, now, watched, mirror, index, syncToken, argTok, cur,
                   exc, result, frontier, chain, store0>>
    /\ UNCHANGED walkVars
    /\ UNCHANGED opsVars

\* changes.list fails, or answers without status 200 or without a list.
ListChangesFails ==
    /\ pc = "list"
    /\ lastCalls' = {"changes.list"}
    /\ \E e \in {"403", "other"} : Throw(e)
    /\ UNCHANGED <<feed, now, watched, mirror, index, syncToken, argTok, cur,
                   page, i, result, frontier, chain, store0>>
    /\ UNCHANGED walkVars
    /\ UNCHANGED opsVars

\* Faulty variant of LoopEntry: the page is walked from its end.
LoopEntryBackwards(p, k) == p.changes[Len(p.changes) + 1 - k]

\* for (const change of changesRes.data.changes): the entry of pass k.
LoopEntry(p, k) == p.changes[k]

\* One pass of the loop body that runs to its end.
ProcessChange ==
    /\ pc = "loop"
    /\ i <= Len(page.changes)
    /\ LET change == LoopEntry(page, i)
           branch == ChangeBranch(change, getFoldersToSync)
           after == ApplyChange(mirror, index, change, getFoldersToSync, now)
       IN  /\ branch # "invalid"
           /\ lastCalls' = BranchCalls(branch, mirror, index, change)
           /\ mirror' = after.mirror
           /\ index' = after.index
    /\ i' = i + 1
    /\ frontier' = IF frontier = Some(cur[1] + i - 1)
                   THEN Some(cur[1] + i)
                   ELSE frontier
    /\ chain' = IF chain.st = "run" THEN [chain EXCEPT !.n = @ + 1] ELSE chain
    /\ UNCHANGED <<feed, now, watched, syncToken, pc, argTok, cur, page, exc,
                   result, store0>>
    /\ UNCHANGED walkVars
    /\ UNCHANGED opsVars

\* The loop body throws "Invalid file" on an entry in scope that lacks a
\* required field.
ProcessChangeInvalid ==
    /\ pc = "loop"
    /\ i <= Len(page.changes)
    /\ ChangeBranch(LoopEntry(page, i), getFoldersToSync) = "invalid"
    /\ lastCalls' = {"files.get"}
    /\ Throw("other")
    /\ UNCHANGED <<feed, now, watched, mirror, index, syncToken, argTok, cur,
                   page, i, result, frontier, chain, store0>>
    /\ UNCHANGED walkVars
    /\ UNCHANGED opsVars

\* A call of the loop body (remote provider, downstream index, database)
\* fails before the entry has had an effect.
ProcessChangeFails ==
    /\ pc = "loop"
    /\ i <= Len(page.changes)
    /\ ChangeBranch(LoopEntry(page, i), getFoldersToSync) # "skip"
    /\ lastCalls' = {"files.get"}
    /\ \E e \in {"403", "other"} : Throw(e)
    /\ UNCHANGED <<feed, now, watched, mirror, index, syncToken, argTok, cur,
                   page, i, result, frontier, chain, store0>>
    /\ UNCHANGED walkVars
    /\ UNCHANGED opsVars

\* Faulty variant of PersistedAfter: the cursor of the next page is persisted
\* as well.
PersistedAfterEveryPage(persisted, p) ==
    IF p.newStartPageToken # Undefined
    THEN p.newStartPageToken
    ELSE IF p.nextPageToken # Undefined THEN p.nextPageToken ELSE persisted

\* The token the end of the invocation leaves persisted.
PersistedAfter(persisted, p) ==
    IF p.newStartPageToken # Undefined THEN p.newStartPageToken ELSE persisted

\* Faulty variant of ReturnedAfter: the next-page cursor is dropped.
ReturnedAfterDropsCursor(p) == Undefined

\* Faulty variant of ReturnedAfter: the new start token is returned when there
\* is no next page.
ReturnedAfterAlwaysCursor(p) ==
    IF p.nextPageToken # Undefined THEN p.nextPageToken ELSE p.newStartPageToken

\* The value the invocation returns after the page.
ReturnedAfter(p) ==
    IF p.nextPageToken # Undefined THEN p.nextPageToken ELSE Undefined

\* After the loop: persist the new start token, if any, and return.
FinishPage ==
    /\ pc = "loop"
    /\ i > Len(page.changes)
    /\ lastCalls' = {}
    /\ syncToken' = PersistedAfter(syncToken, page)
    /\ frontier' = IF frontier = Undefined THEN syncToken' ELSE frontier
    /\ result' = Outcome("returned", ReturnedAfter(page), "none")
    /\ pc' = "idle"
    /\ chain' = IF chain.st = "run" /\ ReturnedAfter(page) = Undefined
                THEN [chain EXCEPT !.st = "done"]
                ELSE chain
    /\ cur' = Undefined
    /\ page' = NoPage
    /\ i' = 0
    /\ UNCHANGED <<feed, now, watched, mirror, index, argTok, exc, store0>>
    /\ UNCHANGED walkVars
    /\ UNCHANGED opsVars

\* GoogleDriveSyncToken.upsert fails.
PersistFails ==
    /\ pc = "loop"
    /\ i > Len(page.changes)
    /\ page.newStartPageToken # Undefined
    /\ lastCalls' = {}
    /\ Throw("other")
    /\ UNCHANGED <<feed, now, watched, mirror, index, syncToken, argTok, cur,
                   page, i, result, frontier, chain, store0>>
    /\ UNCHANGED walkVars
    /\ UNCHANGED opsVars

\* Faulty variant of CatchResult: every error is swallowed.
CatchResultSwallowsAll(e) == Outcome("returned", Undefined, e)

\* The catch block: a 403 of the remote provider is swallowed and undefined
\* returned, anything else is thrown again.
CatchResult(e) ==
    IF e = "403"
    THEN Outcome("returned", Undefined, e)
    ELSE Outcome("raised", Undefined, e)

Catch ==
    /\ pc = "catch"
    /\ result' = CatchResult(exc)
    /\ pc' = "idle"
    /\ exc' = "none"
    /\ lastCalls' = {}
    /\ chain' = Broken
    /\ cur' = Undefined
    /\ page' = NoPage
    /\ i' = 0
    /\ UNCHANGED <<feed, now, watched, mirror, index, syncToken, argTok,
                   frontier, store0>>
    /\ UNCHANGED walkVars
    /\ UNCHANGED opsVars

\* The worker process dies in the middle of the invocation.
Crash ==
    /\ pc \in {"start", "list", "loop"}
    /\ pc' = "idle"
    /\ result' = Outcome("crashed", Undefined, "none")
    /\ lastCalls' = {}
    /\ chain' = Broken
    /\ cur' = Undefined
    /\ page' = NoPage
    /\ i' = 0
    /\ UNCHANGED <<feed, now, watched, mirror, index, syncToken, argTok, exc,
                   frontier, store0>>
    /\ UNCHANGED walkVars
    /\ UNCHANGED opsVars

\* ---------------------------------------------------- populateSyncTokens
\* For the drive getDrives lists: persist the token getSyncPageToken answers.
populateSyncTokens ==
    /\ pc = "idle"
    /\ syncToken' = getSyncPageToken(syncToken, feed)
    /\ frontier' = IF frontier = Undefined THEN syncToken' ELSE frontier
    /\ lastCalls' = {"drives.list"} \cup StartCursorCalls(Undefined, syncToken)
    /\ UNCHANGED <<feed, now, watched, mirror, index, pc, argTok, cur, page,
                   i, exc, result, chain, store0>>
    /\ UNCHANGED walkVars
    /\ UNCHANGED opsVars

\* ----------------------------------------------------- the remote drive
\* An object of the drive is binned, restored, deleted or shared again, or a
\* document is moved to another folder: object id becomes obj.
RemoteBecomes(id, obj) ==
    /\ obj # remote[id]
    /\ remote' = [remote EXCEPT ![id] = obj]
    /\ UNCHANGED <<now, watched, mirror, index, foreign, gc, fs>>
    /\ UNCHANGED syncVars
    /\ UNCHANGED opsVars

\* Time passes between two invocations.
Tick ==
    /\ gc.pc = "idle"
    /\ fs.pc = "idle"
    /\ now < MaxTime
    /\ now' = now + 1
    /\ UNCHANGED <<watched, mirror, index, remote, foreign, gc, fs>>
    /\ UNCHANGED syncVars
    /\ UNCHANGED opsVars

\* ------------------------------------------------------ garbageCollector
Min(a, b) == IF a < b THEN a ELSE b

\* lastSeenTs: { [Op.or]: [{ [Op.lt]: new Date(lastSeenTs) }, null] }
IsStale(row, cutoff) == row.lastSeenTs = NullTs \/ row.lastSeenTs < cutoff

StaleIn(m, cutoff) == {id \in DOMAIN m : IsStale(m[id], cutoff)}

\* Faulty variant of GcCandidates: the connectorId filter is missing.
GcCandidatesAnyConnector(m, fm, cutoff) ==
    {<<"own", id>> : id \in StaleIn(m, cutoff)}
        \cup {<<"foreign", id>> : id \in StaleIn(fm, cutoff)}

\* The rows the where clause of findAll matches, as <<connector, driveFileId>>.
GcCandidates(m, fm, cutoff) == {<<"own", id>> : id \in StaleIn(m, cutoff)}

\* Faulty variant of GcPages: findAll without the limit.
GcPagesUnlimited(cands) == {cands}

\* The results findAll can answer with limit: 100 and no ORDER BY.
GcPages(cands) ==
    {S \in SUBSET cands : Cardinality(S) = Min(GcLimit, Cardinality(cands))}

\* garbageCollector(connectorId, cutoff) up to the dispatch of the tasks: the
\* stale rows of the connector and the selected folders are read.
GcSelectAt(cutoff) ==
    /\ gc.pc = "idle"
    /\ fs.pc = "idle"
    /\ pc = "idle"
    /\ \E S \in GcPages(GcCandidates(mirror, foreign, cutoff)) :
          gc' = [pc |-> "tasks", cutoff |-> cutoff, files |-> S, todo |-> S,
                 folders |-> getFoldersToSync, failed |-> FALSE,
                 done |-> {}, deleted |-> {},
                 result |-> GcResult("garbageCollector", "running", 0, FALSE)]
    /\ UNCHANGED <<now, watched, mirror, index, remote, foreign, fs>>
    /\ UNCHANGED syncVars
    /\ UNCHANGED opsVars

\* The orchestrator calls garbageCollector with a cutoff in the past.
GcSelect == \E cutoff \in 0..now : GcSelectAt(cutoff)

\* The store of a connector.
RowsOf(c, m, fm) == IF c = "own" THEN m ELSE fm

\* Faulty variant of GcRefresh: the row is written back with the lastSeenTs it
\* had.
GcRefreshKeepsTs(m, fm, idx, key, t) ==
    [mirror |-> m, foreign |-> fm, index |-> idx]

\* file.update({ lastSeenTs: new Date() }) on the selected row.
GcRefresh(m, fm, idx, key, t) ==
    LET id == key[2]
    IN  IF id \notin DOMAIN RowsOf(key[1], m, fm)
        THEN [mirror |-> m, foreign |-> fm, index |-> idx]
        ELSE IF key[1] = "own"
        THEN [mirror |-> [m EXCEPT ![id].lastSeenTs = t], foreign |-> fm,
              index |-> idx]
        ELSE [mirror |-> m, foreign |-> [fm EXCEPT ![id].lastSeenTs = t],
              index |-> idx]

\* deleteFile(file) on the selected row.
GcDeleteRow(m, fm, idx, key) ==
    LET id == key[2]
    IN  IF id \notin DOMAIN RowsOf(key[1], m, fm)
        THEN [mirror |-> m, foreign |-> fm, index |-> idx]
        ELSE IF key[1] = "own"
        THEN [mirror |-> deleteFile(m, idx, id).mirror, foreign |-> fm,
              index |-> deleteFile(m, idx, id).index]
        ELSE [mirror |-> m, foreign |-> Destroy(fm, id), index |-> idx]

\* Faulty variant of GcTaskEffect: a row whose object is in the bin is
\* refreshed like a live one.
GcTaskEffectKeepsTrashed(m, fm, idx, key, r, folders, t) ==
    LET driveFile == getGoogleDriveObject(r, key[2])
    IN  IF driveFile = Undefined THEN GcDeleteRow(m, fm, idx, key)
        ELSE IF ~objectIsInFolders(driveFile[1], folders)
        THEN [mirror |-> deleteOneFile(m, idx, driveFile[1]).mirror,
              foreign |-> fm,
              index |-> deleteOneFile(m, idx, driveFile[1]).index]
        ELSE GcRefresh(m, fm, idx, key, t)

\* The task of one selected row.
GcTaskEffect(m, fm, idx, key, r, folders, t) ==
    LET driveFile == getGoogleDriveObject(r, key[2])
    IN  IF driveFile = Undefined THEN GcDeleteRow(m, fm, idx, key)
        ELSE IF ~objectIsInFolders(driveFile[1], folders)
                \/ driveFile[1].trashed
        THEN [mirror |-> deleteOneFile(m, idx, driveFile[1]).mirror,
              foreign |-> fm,
              index |-> deleteOneFile(m, idx, driveFile[1]).index]
        ELSE GcRefresh(m, fm, idx, key, t)

\* The queue runs the task of one of the selected rows to its end.
GcTask ==
    /\ gc.pc = "tasks"
    /\ \E key \in gc.todo :
         LET after == GcTaskEffect(mirror, foreign, index, key, remote,
                                   gc.folders, now)
             gone == key[2] \notin DOMAIN RowsOf(key[1], after.mirror,
                                                 after.foreign)
         IN  /\ mirror' = after.mirror
             /\ foreign' = after.foreign
             /\ index' = after.index
             /\ gc' = [gc EXCEPT !.todo = @ \ {key},
                                 !.done = @ \cup {key},
                                 !.deleted = IF gone THEN @ \cup {key} ELSE @]
    /\ UNCHANGED <<now, watched, remote, fs>>
    /\ UNCHANGED syncVars
    /\ UNCHANGED opsVars

\* The task of one of the selected rows throws (the remote fetch, the
\* resolution of the parents, the downstream delete or the database fails)
\* before it has had an effect.
GcTaskFails ==
    /\ gc.pc = "tasks"
    /\ \E key \in gc.todo :
         gc' = [gc EXCEPT !.todo = @ \ {key}, !.failed = TRUE]
    /\ UNCHANGED <<now, watched, mirror, index, remote, foreign, fs>>
    /\ UNCHANGED syncVars
    /\ UNCHANGED opsVars

\* Faulty variant of GcReturned: the rows destroyed are counted.
GcReturnedCountsDeleted(files, deleted) == Cardinality(deleted)

\* return files.length
GcReturned(files, deleted) == Cardinality(files)

\* Every task has resolved: Promise.all resolves and the call returns.
GcReturn ==
    /\ gc.pc = "tasks"
    /\ gc.todo = {}
    /\ gc.done = gc.files
    /\ ~gc.failed
    /\ gc' = GcIdle(GcResult("garbageCollector", "returned",
                             GcReturned(gc.files, gc.deleted), FALSE))
    /\ UNCHANGED <<now, watched, mirror, index, remote, foreign, fs>>
    /\ UNCHANGED syncVars
    /\ UNCHANGED opsVars

\* Faulty variant of GcSettle: the rejection of a task is caught and the call
\* goes on.
GcSettleIsolated(g) ==
    IF g.todo = {}
    THEN GcIdle(GcResult("garbageCollector", "returned",
                         GcReturned(g.files, g.deleted), FALSE))
    ELSE [g EXCEPT !.failed = FALSE]

\* await Promise.all(...) once a task has rejected: nothing catches the
\* rejection and the call throws.  The tasks still queued run on detached from
\* the call: they have run by the time the orchestrator sees the error, or
\* they are lost with the worker.
GcSettle(g) == GcIdle(GcResult("garbageCollector", "raised", 0, FALSE))

GcRaise ==
    /\ gc.pc = "tasks"
    /\ gc.failed
    /\ gc' = GcSettle(gc)
    /\ UNCHANGED <<now, watched, mirror, index, remote, foreign, fs>>
    /\ UNCHANGED syncVars
    /\ UNCHANGED opsVars

\* -------------------------------------------------- shouldGarbageCollect
\* Faulty variant of shouldGarbageCollect: a folder in the bin counts as lost.
shouldGarbageCollectTrashedToo(folders, r) ==
    \E f \in folders :
        \/ getGoogleDriveObject(r, f) = Undefined
        \/ getGoogleDriveObject(r, f)[1].trashed

shouldGarbageCollect(folders, r) ==
    \E f \in folders : getGoogleDriveObject(r, f) = Undefined

ShouldGarbageCollectCall ==
    /\ gc.pc = "idle"
    /\ fs.pc = "idle"
    /\ gc' = GcIdle(GcResult("shouldGarbageCollect", "returned", 0,
                             shouldGarbageCollect(watched, remote)))
    /\ UNCHANGED <<now, watched, mirror, index, remote, foreign, fs>>
    /\ UNCHANGED syncVars
    /\ UNCHANGED opsVars

\* ------------------------------------------------------------ the scope
\* The user changes the folders selected for sync (GoogleDriveFolders).
SelectFolders ==
    /\ \E w \in {{}, {"F1"}, {"F1", "F2"}} :
         /\ w # watched
         /\ watched' = w
    /\ UNCHANGED <<now, mirror, index, remote, foreign, gc, fs>>
    /\ UNCHANGED syncVars
    /\ UNCHANGED opsVars

\* -------------------------------------------------------------- syncFiles
\* The order in which files.list answers the children of a folder.
ListOrder == <<"doc1", "doc2", "sub1">>

\* The children files.list finds for q: '<folder>' in parents and (<MIME
\* types to sync>) and trashed=false.  The search index can lag behind the
\* bin: with lag, a child binned a moment ago is still found, and the file
\* resource it is answered with says trashed.
FolderChildren(r, folder, lag) ==
    SelectSeq(ListOrder,
              LAMBDA id : /\ r[id].parent = folder
                          /\ r[id].status # "gone"
                          /\ RemoteMimeOf(id) \in getMimeTypesToSync
                          /\ (lag \/ ~RemoteTrashed(r, id)))

\* drive.files.list at page token t: one page of at most FsPageSize children.
filesList(r, folder, t, lag) ==
    LET all == FolderChildren(r, folder, lag)
        last == t + FsPageSize - 1
    IN  IF last < Len(all)
        THEN [files |-> SubSeq(all, t, last), nextPageToken |-> Some(last + 1)]
        ELSE [files |-> SubSeq(all, t, Len(all)), nextPageToken |-> Undefined]

\* The file resource files.list answers for a child, as driveObjectToDustType
\* hands it on.
ListedFile(r, id) ==
    driveObjectToDustType(
        RemoteFile(id, id, RemoteMimeOf(id), r[id].parent,
                   RemoteTrashed(r, id)))

\* temporal/file syncOneFile, with the boolean it returns: a folder has no
\* content and gets no row (its row is written by markFolderAsVisited once it
\* has been walked), a content fetch that fails is reported by false.
syncOneFileResult(m, idx, file, t, fetched) ==
    IF file.mimeType = FOLDER_MIME \/ ~fetched
    THEN [mirror |-> m, index |-> idx, ok |-> FALSE]
    ELSE [mirror |-> syncOneFile(m, idx, file, t).mirror,
          index |-> syncOneFile(m, idx, file, t).index, ok |-> TRUE]

\* The orchestrator calls syncFiles on a folder: on its first page, or on the
\* page the previous invocation on that folder returned the cursor of.
FsInvoke ==
    /\ fs.pc = "idle"
    /\ gc.pc = "idle"
    /\ \E folder \in {"F1", "sub1"}, startSyncTs \in 0..now,
          token \in {Undefined, fs.result.nextPageToken} :
          /\ token # Undefined =>
                /\ fs.result.op = "syncFiles"
                /\ folder = fs.folder
                /\ startSyncTs = fs.startSyncTs
          /\ fs' = [FsIdle(FsResult("syncFiles", "running", Undefined, 0, {}))
                      EXCEPT !.pc = "lookup", !.folder = folder,
                             !.startSyncTs = startSyncTs, !.token = token]
    /\ UNCHANGED <<now, watched, mirror, index, remote, foreign, gc>>
    /\ UNCHANGED syncVars
    /\ UNCHANGED opsVars

\* The invocation ends with result res.
FsEnd(f, res) ==
    [FsIdle(res) EXCEPT !.folder = f.folder, !.startSyncTs = f.startSyncTs,
                        !.calls = f.calls, !.walked = f.walked]

\* Faulty variant of FsVisited: the cursor is not looked at.
FsVisitedAnyPage(m, folderId, startSyncTs, token) ==
    /\ folderId \in DOMAIN m
    /\ m[folderId].lastSeenTs # NullTs
    /\ m[folderId].lastSeenTs >= startSyncTs

\* Faulty variant of FsVisited: a row stamped at startSyncTs itself does not
\* count.
FsVisitedStrictlyAfter(m, folderId, startSyncTs, token) ==
    /\ token = Undefined
    /\ folderId \in DOMAIN m
    /\ m[folderId].lastSeenTs # NullTs
    /\ m[folderId].lastSeenTs > startSyncTs

\* On the first page of a folder: is there a row of it with lastSeenTs at or
\* after startSyncTs.
FsVisited(m, folderId, startSyncTs, token) ==
    /\ token = Undefined
    /\ folderId \in DOMAIN m
    /\ m[folderId].lastSeenTs # NullTs
    /\ m[folderId].lastSeenTs >= startSyncTs

\* Faulty variant of FsAfterLookup: a folder that is not found is an error.
FsAfterLookupRaisesOn404(f, m, r) ==
    LET g == [f EXCEPT !.calls = @ \cup {"files.get"}]
        driveFolder == getGoogleDriveObject(r, f.folder)
    IN  IF driveFolder = Undefined
        THEN FsEnd(g, FsResult("syncFiles", "raised", Undefined, 0, {}))
        ELSE IF FsVisited(m, driveFolder[1].id, f.startSyncTs, f.token)
        THEN FsEnd(g, FsEmpty)
        ELSE [g EXCEPT !.pc = "list"]

\* Faulty variant of FsAfterLookup: the row of the folder is looked up first,
\* by the id passed in, and the drive is not asked when it is visited.
FsAfterLookupRowFirst(f, m, r) ==
    IF FsVisited(m, f.folder, f.startSyncTs, f.token)
    THEN FsEnd(f, FsEmpty)
    ELSE LET g == [f EXCEPT !.calls = @ \cup {"files.get"}]
         IN  IF getGoogleDriveObject(r, f.folder) = Undefined
             THEN FsEnd(g, FsEmpty)
             ELSE [g EXCEPT !.pc = "list"]

\* syncFiles up to the listing: the folder is fetched from the drive; not
\* found, or already visited, the invocation returns the empty result.
FsAfterLookup(f, m, r) ==
    LET g == [f EXCEPT !.calls = @ \cup {"files.get"}]
        driveFolder == getGoogleDriveObject(r, f.folder)
    IN  IF driveFolder = Undefined
        THEN FsEnd(g, FsEmpty)
        ELSE IF FsVisited(m, driveFolder[1].id, f.startSyncTs, f.token)
        THEN FsEnd(g, FsEmpty)
        ELSE [g EXCEPT !.pc = "list"]

FsLookup ==
    /\ fs.pc = "lookup"
    /\ fs' = FsAfterLookup(fs, mirror, remote)
    /\ UNCHANGED <<now, watched, mirror, index, remote, foreign, gc>>
    /\ UNCHANGED syncVars
    /\ UNCHANGED opsVars

\* drive.files.list answers a page; its files become the tasks of the queue.
FsList ==
    /\ fs.pc = "list"
    /\ \E lag \in BOOLEAN :
          LET t == IF fs.token = Undefined THEN 1 ELSE fs.token[1]
              res == filesList(remote, fs.folder, t, lag)
          IN  fs' = [fs EXCEPT
                        !.pc = "tasks",
                        !.calls = @ \cup {"files.list"},
                        !.walked = @ \cup {fs.folder},
                        !.files = [k \in 1..Len(res.files) |->
                                      ListedFile(remote, res.files[k])],
                        !.next = res.nextPageToken,
                        !.todo = 1..Len(res.files)]
    /\ UNCHANGED <<now, watched, mirror, index, remote, foreign, gc>>
    /\ UNCHANGED syncVars
    /\ UNCHANGED opsVars

\* drive.files.list fails, or answers without status 200 or without files.
FsListFails ==
    /\ fs.pc = "list"
    /\ fs' = FsEnd([fs EXCEPT !.calls = @ \cup {"files.list"}],
                   FsResult("syncFiles", "raised", Undefined, 0, {}))
    /\ UNCHANGED <<now, watched, mirror, index, remote, foreign, gc>>
    /\ UNCHANGED syncVars
    /\ UNCHANGED opsVars

\* Faulty variant of FsTaskEffect: a child in the bin is synced like any other.
FsTaskEffectSyncsTrashed(m, idx, file, t, fetched) ==
    syncOneFileResult(m, idx, file, t, fetched)

\* The task of one listed child: syncOneFile unless it is in the bin, else
\* deleteOneFile, whose task resolves to undefined.
FsTaskEffect(m, idx, file, t, fetched) ==
    IF ~file.trashed
    THEN syncOneFileResult(m, idx, file, t, fetched)
    ELSE [mirror |-> deleteOneFile(m, idx, file).mirror,
          index |-> deleteOneFile(m, idx, file).index, ok |-> FALSE]

\* Faulty variant of FsAfterTask: a sync that reports failure rejects the
\* task.
FsAfterTaskFailureRejects(f, k, ok) ==
    [f EXCEPT !.todo = @ \ {k}, !.done = @ \cup {k},
              !.results = IF ok THEN @ \cup {k} ELSE @,
              !.failed = @ \/ (~ok /\ ~f.files[k].trashed)]

\* The task of child k has resolved to ok.
FsAfterTask(f, k, ok) ==
    [f EXCEPT !.todo = @ \ {k}, !.done = @ \cup {k},
              !.results = IF ok THEN @ \cup {k} ELSE @]

\* The queue runs the task of one listed child to its end; the content fetch
\* of syncOneFile succeeds or fails.
FsTask ==
    /\ fs.pc = "tasks"
    /\ \E k \in fs.todo, fetched \in BOOLEAN :
          LET after == FsTaskEffect(mirror, index, fs.files[k], now, fetched)
          IN  /\ mirror' = after.mirror
              /\ index' = after.index
              /\ fs' = [FsAfterTask(fs, k, after.ok) EXCEPT
                           !.calls = IF fs.files[k].trashed
                                        \/ fs.files[k].mimeType = FOLDER_MIME
                                     THEN @ ELSE @ \cup {"files.export"}]
    /\ UNCHANGED <<now, watched, remote, foreign, gc>>
    /\ UNCHANGED syncVars
    /\ UNCHANGED opsVars

\* The task of a child in the bin throws: the downstream delete or the
\* database fails before deleteOneFile has had an effect.
FsTaskThrows ==
    /\ fs.pc = "tasks"
    /\ \E k \in fs.todo :
          /\ fs.files[k].trashed
          /\ fs.files[k].id \in DOMAIN mirror
          /\ fs' = [fs EXCEPT !.todo = @ \ {k}, !.failed = TRUE]
    /\ UNCHANGED <<now, watched, mirror, index, remote, foreign, gc>>
    /\ UNCHANGED syncVars
    /\ UNCHANGED opsVars

\* subfolders: the listed children that are folders.
FsSubfolders(files) ==
    {files[k].id : k \in {j \in 1..Len(files) : files[j].mimeType = FOLDER_MIME}}

\* Faulty variant of FsReturned: every listed child is counted.
FsReturnedCountsListed(f) ==
    FsResult("syncFiles", "returned", f.next, Len(f.files),
             FsSubfolders(f.files))

\* The object syncFiles returns after the tasks.
FsReturned(f) ==
    FsResult("syncFiles", "returned", f.next, Cardinality(f.results),
             FsSubfolders(f.files))

\* Every task has resolved: Promise.all resolves and the call returns.
FsReturn ==
    /\ fs.pc = "tasks"
    /\ fs.todo = {}
    /\ fs.done = 1..Len(fs.files)
    /\ ~fs.failed
    /\ fs' = FsEnd(fs, FsReturned(fs))
    /\ UNCHANGED <<now, watched, mirror, index, remote, foreign, gc>>
    /\ UNCHANGED syncVars
    /\ UNCHANGED opsVars

\* A task has rejected: Promise.all rejects and the call throws; the tasks
\* still queued have run by then or are lost with the worker.
FsRaise ==
    /\ fs.pc = "tasks"
    /\ fs.failed
    /\ fs' = FsEnd(fs, FsResult("syncFiles", "raised", Undefined, 0, {}))
    /\ UNCHANGED <<now, watched, mirror, index, remote, foreign, gc>>
    /\ UNCHANGED syncVars
    /\ UNCHANGED opsVars

\* ---------------------------------------------------- markFolderAsVisited
\* Faulty variant of VisitedRows: a row is written for a folder that is not
\* found.
VisitedRowsOn404Too(m, r, driveFileId, t) ==
    Upsert(m, driveFileId,
           [dustFileId |-> getDocumentId(driveFileId), name |-> driveFileId,
            mimeType |-> FOLDER_MIME, parentId |-> "", lastSeenTs |-> t])

\* Faulty variant of VisitedRows: the row is keyed by the document id.
VisitedRowsKeyedByDocument(m, r, driveFileId, t) ==
    LET file == getGoogleDriveObject(r, driveFileId)
    IN  IF file = Undefined
        THEN m
        ELSE Upsert(m, getDocumentId(driveFileId),
                    [dustFileId |-> getDocumentId(driveFileId),
                     name |-> file[1].name, mimeType |-> file[1].mimeType,
                     parentId |-> file[1].parent, lastSeenTs |-> t])

\* The mirror store after markFolderAsVisited(connectorId, driveFileId).
VisitedRows(m, r, driveFileId, t) ==
    LET file == getGoogleDriveObject(r, driveFileId)
    IN  IF file = Undefined
        THEN m
        ELSE Upsert(m, file[1].id,
                    [dustFileId |-> getDocumentId(driveFileId),
                     name |-> file[1].name, mimeType |-> file[1].mimeType,
                     parentId |-> file[1].parent, lastSeenTs |-> t])

markFolderAsVisited ==
    /\ fs.pc = "idle"
    /\ gc.pc = "idle"
    /\ \E folder \in {"F1", "sub1"} :
          /\ mirror' = VisitedRows(mirror, remote, folder, now)
          /\ fs' = [FsIdle(FsResult("markFolderAsVisited", "returned",
                                    Undefined, 0, {}))
                      EXCEPT !.folder = folder, !.calls = {"files.get"}]
    /\ UNCHANGED <<now, watched, index, remote, foreign, gc>>
    /\ UNCHANGED syncVars
    /\ UNCHANGED opsVars

\* ---------------------------------------------------------- renewWebhooks
\* What no step of renewWebhooks touches.
HookFrame ==
    /\ UNCHANGED <<now, watched, mirror, index>>
    /\ UNCHANGED syncVars
    /\ UNCHANGED walkVars
    /\ UNCHANGED launchVars

\* Time passes between two passes (a pass itself takes far less than an
\* hour): an hour, during the first MaxClock hours, or once the retention
\* window of the cleanup.
Elapse ==
    /\ rw.pc = "idle"
    /\ \/ now < MaxClock /\ now' = now + 1
       \/ now <= MaxClock /\ now' = now + SweepRetention
    /\ UNCHANGED <<watched, mirror, index>>
    /\ UNCHANGED syncVars
    /\ UNCHANGED walkVars
    /\ UNCHANGED opsVars

\* The rows the findAll of renewWebhooks matches at time t: renewAt within the
\* margin, renewedByWebhookId null.
RwCandidates(w, t) ==
    {id \in DOMAIN w :
        /\ w[id].renewAt < t + GOOGLE_DRIVE_WEBHOOK_RENEW_MARGIN_MS
        /\ w[id].renewedByWebhookId = Undefined}

\* The results a findAll or a destroy with limit: pageSize and no ORDER BY can
\* settle on.
RwPages(cands) ==
    {S \in SUBSET cands : Cardinality(S) = Min(RwPageSize, Cardinality(cands))}

\* The orders in which a result set can come back.
RwOrders(S) ==
    {q \in [1..Cardinality(S) -> S] : \A a, b \in 1..Cardinality(S) :
                                          q[a] = q[b] => a = b}

\* The loop moves on to row k, or leaves for the cleanup.
RwAt(r, k) ==
    [r EXCEPT !.k = k, !.res = Undefined, !.e = "none",
              !.pc = IF k > Len(r.list) THEN "sweep" ELSE "loop"]

\* renewWebhooks(pageSize) up to the loop: the webhooks to renew are read.
RwSelect ==
    /\ rw.pc = "idle"
    /\ \E S \in RwPages(RwCandidates(webhooks, now)) :
          \E q \in RwOrders(S) :
             rw' = RwAt([RwIdle EXCEPT !.list = q], 1)
    /\ UNCHANGED <<webhooks, created, errorType>>
    /\ HookFrame

\* The row the loop has in hand.
RwHand == rw.list[rw.k]

\* The errors a remote call can raise, and those the catch block takes for a
\* revoked authorization.
RwErrors == {"ExternalOauthTokenError", "HTTPError no permission", "other"}

\* getAuthObject or getGoogleDriveObject throws.
RwLookupFails ==
    /\ rw.pc = "loop"
    /\ \E e \in RwErrors : rw' = [rw EXCEPT !.pc = "catch", !.e = e]
    /\ UNCHANGED <<webhooks, created, errorType>>
    /\ HookFrame

\* Faulty variant of RwRetired: a new webhook is registered for the lost
\* drive.
RwRetiredReplaces(w, n, wh, t) ==
    [webhooks |->
        [id \in (DOMAIN w \ {wh}) \cup {n + 1} |->
            IF id = n + 1 THEN NewWebhookRow(w[wh].driveId, t) ELSE w[id]],
     created |-> n + 1]

\* The webhook table once the webhook of a lost drive is destroyed.
RwRetired(w, n, wh, t) ==
    [webhooks |-> [id \in DOMAIN w \ {wh} |-> w[id]], created |-> n]

\* The drive of the webhook is no longer accessible: the webhook is destroyed.
RwRetire ==
    /\ rw.pc = "loop"
    /\ getGoogleDriveObject(remote, webhooks[RwHand].driveId) = Undefined
    /\ LET after == RwRetired(webhooks, created, RwHand, now)
       IN  /\ after.created <= MaxHooks
           /\ webhooks' = after.webhooks
           /\ created' = after.created
    /\ rw' = RwAt([rw EXCEPT !.retired = @ \cup {RwHand}], rw.k + 1)
    /\ UNCHANGED errorType
    /\ HookFrame

\* lib ensureWebhookForDriveId finds nothing to do: the drive has a webhook
\* whose renewal is further away than the margin.
EnsuredWebhook(w, driveId, t) ==
    \E id \in DOMAIN w :
        /\ w[id].driveId = driveId
        /\ w[id].renewAt > t + GOOGLE_DRIVE_WEBHOOK_RENEW_MARGIN_MS

\* lib ensureWebhookForDriveId(connector, driveId, marginMs) when the remote
\* provider grants the channel: the table, the number of webhooks registered
\* and the value returned (the id of the new webhook, or nothing).
ensureWebhookForDriveId(w, n, driveId, t) ==
    IF EnsuredWebhook(w, driveId, t)
    THEN [webhooks |-> w, created |-> n, value |-> Undefined]
    ELSE [webhooks |->
             [id \in DOMAIN w \cup {n + 1} |->
                 IF id = n + 1 THEN NewWebhookRow(driveId, t) ELSE w[id]],
          created |-> n + 1, value |-> Some(n + 1)]

\* The drive is accessible and ensureWebhookForDriveId succeeds: with a new
\* webhook the old one is to be linked, without one the row is left alone.
RwEnsure ==
    /\ rw.pc = "loop"
    /\ getGoogleDriveObject(remote, webhooks[RwHand].driveId) # Undefined
    /\ LET res == ensureWebhookForDriveId(webhooks, created,
                                          webhooks[RwHand].driveId, now)
       IN  /\ res.created <= MaxHooks
           /\ webhooks' = res.webhooks
           /\ created' = res.created
           /\ rw' = IF res.value # Undefined
                    THEN [rw EXCEPT !.pc = "link", !.res = res.value]
                    ELSE RwAt([rw EXCEPT !.passed = @ \cup {RwHand}],
                              rw.k + 1)
    /\ UNCHANGED errorType
    /\ HookFrame

\* The drive is accessible and ensureWebhookForDriveId answers an error, which
\* the loop throws to its catch block.
RwEnsureFails ==
    /\ rw.pc = "loop"
    /\ getGoogleDriveObject(remote, webhooks[RwHand].driveId) # Undefined
    /\ \E e \in RwErrors : rw' = [rw EXCEPT !.pc = "catch", !.e = e]
    /\ UNCHANGED <<webhooks, created, errorType>>
    /\ HookFrame

\* Faulty variant of RwLinked: the old webhook is destroyed at once.
RwLinkedOldDestroyed(w, wh, res) == [id \in DOMAIN w \ {wh} |-> w[id]]

\* The webhook table once wh.update({ renewedByWebhookId: res.value }) ran.
RwLinked(w, wh, res) == [w EXCEPT ![wh].renewedByWebhookId = res]

\* The previous webhook is marked as renewed by the new one.
RwLink ==
    /\ rw.pc = "link"
    /\ webhooks' = RwLinked(webhooks, RwHand, rw.res)
    /\ rw' = RwAt([rw EXCEPT !.renewed = @ \cup {<<RwHand, rw.res[1]>>}],
                  rw.k + 1)
    /\ UNCHANGED <<created, errorType>>
    /\ HookFrame

\* e instanceof ExternalOauthTokenError || (e instanceof HTTPError &&
\* e.message === "The caller does not have permission")
RwIsAuthFailure(e) == e \in {"ExternalOauthTokenError", "HTTPError no permission"}

\* Faulty variant of RwDeferred: every failure marks the connector failed.
RwDeferredAlwaysFailed(w, status, wh, e, t) ==
    [webhooks |-> [w EXCEPT ![wh].renewAt = t + RenewDeferral],
     errorType |-> "oauth_token_revoked"]

\* The webhook table and the connector's status after the catch block.
RwDeferred(w, status, wh, e, t) ==
    [webhooks |-> [w EXCEPT ![wh].renewAt = t + RenewDeferral],
     errorType |-> IF RwIsAuthFailure(e) THEN "oauth_token_revoked"
                   ELSE status]

\* The catch block: the failure is told apart, the webhook is pushed down the
\* line.
RwCatch ==
    /\ rw.pc = "catch"
    /\ LET after == RwDeferred(webhooks, errorType, RwHand, rw.e, now)
       IN  /\ webhooks' = after.webhooks
           /\ errorType' = after.errorType
    /\ rw' = RwAt([rw EXCEPT !.deferred = @ \cup {RwHand}],
                  rw.k + 1)
    /\ UNCHANGED created
    /\ HookFrame

\* Faulty variant of RwSweepable: every expired webhook is cleaned up.
RwSweepableAnyExpired(w, t) ==
    {id \in DOMAIN w : w[id].expiresAt < t - SweepRetention}

\* The rows the cleanup of renewWebhooks matches at time t.
RwSweepable(w, t) ==
    {id \in DOMAIN w :
        /\ w[id].expiresAt < t - SweepRetention
        /\ w[id].renewedByWebhookId # Undefined}

\* The cleanup after the loop: renewed webhooks long expired are destroyed.
RwSweep ==
    /\ rw.pc = "sweep"
    /\ \E S \in RwPages(RwSweepable(webhooks, now)) :
          /\ webhooks' = [id \in DOMAIN webhooks \ S |-> webhooks[id]]
          /\ rw' = [rw EXCEPT !.pc = "return", !.swept = S]
    /\ UNCHANGED <<created, errorType>>
    /\ HookFrame

\* return webhooks.length
RwReturn ==
    /\ rw.pc = "return"
    /\ rw' = RwIdle
    /\ UNCHANGED <<webhooks, created, errorType>>
    /\ HookFrame

\* The worker stops in the middle of a pass.
RwCrash ==
    /\ rw.pc \notin {"idle", "return"}
    /\ rw' = RwIdle
    /\ UNCHANGED <<webhooks, created, errorType>>
    /\ HookFrame

\* -------------------------------------------------------------- launchers
\* What no launcher and no workflow touches.
LaunchFrame ==
    /\ UNCHANGED <<watched, mirror, index>>
    /\ UNCHANGED syncVars
    /\ UNCHANGED walkVars
    /\ UNCHANGED hookVars

\* workflows googleDriveFullSyncWorkflowId, googleDriveGarbageCollectorWorkflowId
\* and googleDriveIncrementalSyncWorkflowId: the workflow id of a connector's
\* full sync, garbage collection and incremental sync.
googleDriveFullSyncWorkflowId(connectorId) ==
    <<"googleDriveFullSync", connectorId>>
googleDriveGarbageCollectorWorkflowId(connectorId) ==
    <<"googleDriveGarbageCollector", connectorId>>
googleDriveIncrementalSyncWorkflowId(connectorId) ==
    <<"googleDriveIncrementalSync", connectorId>>

\* An open workflow execution as the orchestrator keeps it: n tells the
\* executions apart, signaled says that newWebhookSignal is waiting to be
\* consumed, activity is the drive whose incrementalSync activity is
\* executing, if any.
Run(workflowId, op, connectorId, n, signaled) ==
    [workflowId |-> workflowId, op |-> op, connectorId |-> connectorId,
     n |-> n, signaled |-> signaled, activity |-> Undefined]

\* The open executions under a workflow id.
Running(rs, workflowId) ==
    {r \in rs.open : r.workflowId = workflowId}

\* Orchestrator, handle.terminate(): the open execution under the id, if any,
\* is closed as terminated.
Terminated(rs, workflowId) ==
    [rs EXCEPT !.open = @ \ Running(rs, workflowId),
               !.terminated = @ + Cardinality(Running(rs, workflowId))]

\* Orchestrator, client.workflow.start: a new execution, provided none is open
\* under the id.
Started(rs, workflowId, op, connectorId, signaled) ==
    [rs EXCEPT !.open = @ \cup {Run(workflowId, op, connectorId,
                                     rs.started + 1, signaled)},
               !.started = @ + 1]

\* The orchestrator notes the time a signal came in for a workflow id.
SignalNoted(rs, workflowId, t) ==
    [rs EXCEPT !.signalledAt =
        [w \in DOMAIN rs.signalledAt \cup {workflowId} |->
            IF w = workflowId THEN t ELSE rs.signalledAt[w]]]

\* Orchestrator, client.workflow.signalWithStart: the open execution under the
\* id is signalled, and one is started with the signal when there is none.
SignalledOrStarted(rs, workflowId, op, connectorId, t) ==
    IF Running(rs, workflowId) # {}
    THEN [SignalNoted(rs, workflowId, t) EXCEPT !.open =
             {IF r \in Running(rs, workflowId)
              THEN [r EXCEPT !.signaled = TRUE] ELSE r : r \in rs.open}]
    ELSE Started(SignalNoted(rs, workflowId, t), workflowId, op, connectorId,
                 TRUE)

\* The connectors ConnectorResource.fetchById finds, and the ids the launchers
\* are called with.
Connectors == {"own", "foreign"}
ConnectorInputs == Connectors \cup {"deleted"}

\* The launches of the rate limiter's time frame, one entry per launch let
\* through: those not older than timeframeSeconds.
RecentLaunches(store, key, timeframe, t) ==
    IF key \in DOMAIN store
    THEN SelectSeq(store[key], LAMBDA at : at >= t - timeframe)
    ELSE <<>>

\* types rateLimiter({ key, maxPerTimeframe, timeframeSeconds }): what is left
\* of the allowance, and the store once the call is counted in.
rateLimiter(store, key, maxPerTimeframe, timeframe, t) ==
    LET recent == RecentLaunches(store, key, timeframe, t)
        remaining == maxPerTimeframe - Len(recent)
    IN  [remaining |-> IF remaining > 0 THEN remaining ELSE 0,
         store |-> IF remaining > 0
                   THEN [k \in DOMAIN store \cup {key} |->
                            IF k = key THEN Append(recent, t) ELSE store[k]]
                   ELSE store]

\* A launcher returns to its caller.
LaunchDone(c, kind, value) ==
    launch' = [launch EXCEPT ![c] = LaunchIdle(LaunchResult(kind, value))]

\* A launcher goes on to its next call of the orchestrator.
LaunchGoes(c, step, op, connectorId) ==
    launch' = [launch EXCEPT ![c] =
                  [pc |-> step, op |-> op, connectorId |-> connectorId,
                   fromTs |-> Undefined, result |-> LaunchResult("none", "")]]

\* workflows googleDriveRenewWebhooksWorkflowId(): one id for the deployment.
googleDriveRenewWebhooksWorkflowId == <<"googleDriveRenewWebhooks", "">>

\* How a launcher ends when a call of the orchestrator fails: the try of the
\* launchers returns Err, but handle.terminate() of the webhook-renewal
\* launcher is in a try of its own whose catch rethrows.
LaunchFailure(l) ==
    IF l.op = "googleDriveRenewWebhooks" /\ l.pc = "terminate"
    THEN "raised"
    ELSE "err"

\* The workflow id a launcher works on.
LaunchWorkflowId(l) ==
    CASE l.op = "googleDriveFullSync" ->
            googleDriveFullSyncWorkflowId(l.connectorId)
      [] l.op = "googleDriveGarbageCollector" ->
            googleDriveGarbageCollectorWorkflowId(l.connectorId)
      [] l.op = "googleDriveRenewWebhooks" ->
            googleDriveRenewWebhooksWorkflowId
      [] OTHER -> googleDriveIncrementalSyncWorkflowId(l.connectorId)

\* The values of the argument fromTs (number | null) of the full-sync
\* launcher: null, the epoch and a later time.
FromTsInputs == {Undefined, Some(0), Some(1)}

\* Faulty variant of FromTsGiven: no fromTs is refused.
FromTsGivenNever(fromTs) == FALSE

\* if (fromTs): null and 0 are falsy.
FromTsGiven(fromTs) == fromTs # Undefined /\ fromTs[1] # 0

\* launchGoogleDriveFullSyncWorkflow(connectorId, fromTs) up to the terminate
\* of the previous run: an unknown connector and a partial resync are refused.
LaunchFullSync(c) ==
    /\ launch[c].pc = "idle"
    /\ \E connectorId \in ConnectorInputs : \E fromTs \in FromTsInputs :
          IF connectorId \notin Connectors
          THEN LaunchDone(c, "err", "Connector not found")
          ELSE IF FromTsGiven(fromTs)
          THEN LaunchDone(c, "err", "partial resync not supported")
          ELSE launch' = [launch EXCEPT ![c] =
                             [pc |-> "terminate", op |-> "googleDriveFullSync",
                              connectorId |-> connectorId, fromTs |-> fromTs,
                              result |-> LaunchResult("none", "")]]
    /\ UNCHANGED <<now, runs, limiter>>
    /\ LaunchFrame

\* launchGoogleGarbageCollector(connectorId) up to the terminate of the
\* previous run.
LaunchGarbageCollector(c) ==
    /\ launch[c].pc = "idle"
    /\ \E connectorId \in ConnectorInputs :
          IF connectorId \notin Connectors
          THEN LaunchDone(c, "err", "Connector not found")
          ELSE LaunchGoes(c, "terminate", "googleDriveGarbageCollector",
                          connectorId)
    /\ UNCHANGED <<now, runs, limiter>>
    /\ LaunchFrame

\* Faulty variant of LaunchTerminated: the previous run is left alone.
LaunchTerminatedNothing(rs, l) == rs

\* The executions after the handle.terminate() of a launcher, a missing run
\* being no error.
LaunchTerminated(rs, l) == Terminated(rs, LaunchWorkflowId(l))

\* The launcher terminates the run found under its workflow id.
LaunchTerminate(c) ==
    /\ launch[c].pc = "terminate"
    /\ runs' = LaunchTerminated(runs, launch[c])
    /\ launch' = [launch EXCEPT ![c].pc = "start"]
    /\ UNCHANGED <<now, limiter>>
    /\ LaunchFrame

\* The launcher starts the new run; the orchestrator refuses it when a run is
\* open under the id.
LaunchStart(c) ==
    /\ launch[c].pc = "start"
    /\ runs.started < MaxRuns
    /\ LET l == launch[c]
           workflowId == LaunchWorkflowId(l)
       IN  IF Running(runs, workflowId) # {}
           THEN /\ LaunchDone(c, "err", "WorkflowExecutionAlreadyStarted")
                /\ UNCHANGED runs
           ELSE /\ runs' = Started(runs, workflowId, l.op, l.connectorId,
                                   FALSE)
                /\ LaunchDone(c, "ok", workflowId)
    /\ UNCHANGED <<now, limiter>>
    /\ LaunchFrame

\* Faulty variant of LaunchAdmitted: the allowance is two launches.
LaunchAdmittedTwice(store, connectorId, t) ==
    rateLimiter(store, connectorId, 2, GDRIVE_INCREMENTAL_SYNC_DEBOUNCE_SEC, t)

\* The answer of the rate limiter to launchGoogleDriveIncrementalSyncWorkflow:
\* one launch per connector and debounce window.
LaunchAdmitted(store, connectorId, t) ==
    rateLimiter(store, connectorId, 1, GDRIVE_INCREMENTAL_SYNC_DEBOUNCE_SEC, t)

\* launchGoogleDriveIncrementalSyncWorkflow(connectorId) up to the call of the
\* orchestrator: an unknown connector is refused, and so is a launch the rate
\* limiter leaves no allowance for.
LaunchIncrementalSync(c) ==
    /\ launch[c].pc = "idle"
    /\ \E connectorId \in ConnectorInputs :
          IF connectorId \notin Connectors
          THEN LaunchDone(c, "err", "Connector not found") /\ UNCHANGED limiter
          ELSE LET answer == LaunchAdmitted(limiter, connectorId, now)
               IN  IF answer.remaining = 0
                   THEN /\ LaunchDone(c, "err", "RateLimitError")
                        /\ UNCHANGED limiter
                   ELSE /\ LaunchGoes(c, "signalWithStart",
                                      "googleDriveIncrementalSync", connectorId)
                        /\ limiter' = answer.store
    /\ UNCHANGED <<now, runs>>
    /\ LaunchFrame

\* Faulty variant of LaunchSignalled: every launch starts a run of its own.
LaunchSignalledStartsAnew(rs, l, t) ==
    Started(SignalNoted(rs, LaunchWorkflowId(l), t),
            <<LaunchWorkflowId(l), rs.started>>, l.op, l.connectorId, TRUE)

\* The executions after the signalWithStart of the launcher.
LaunchSignalled(rs, l, t) ==
    SignalledOrStarted(rs, LaunchWorkflowId(l), l.op, l.connectorId, t)

\* The launcher signals the incremental sync of the connector, starting it
\* when it does not run.
LaunchSignalWithStart(c) ==
    /\ launch[c].pc = "signalWithStart"
    /\ runs.started < MaxRuns
    /\ runs' = LaunchSignalled(runs, launch[c], now)
    /\ LaunchDone(c, "ok", LaunchWorkflowId(launch[c]))
    /\ UNCHANGED <<now, limiter>>
    /\ LaunchFrame

\* The orchestrator cannot be reached: the launcher returns the error.
LaunchFails(c) ==
    /\ launch[c].pc \in {"terminate", "start", "signalWithStart"}
    /\ LaunchDone(c, LaunchFailure(launch[c]), "orchestrator unavailable")
    /\ UNCHANGED <<now, runs, limiter>>
    /\ LaunchFrame

\* One execution changes and the others stay.
RunBecomes(r, after) ==
    /\ runs' = [runs EXCEPT !.open = (@ \ {r}) \cup after]
    /\ UNCHANGED <<now, limiter, launch>>
    /\ LaunchFrame

\* workflows googleDriveIncrementalSync: the workflow takes the signal and
\* runs the incrementalSync activity of one drive after the other.
ActivityStarts ==
    \E r \in runs.open : \E d \in DriveIds :
        /\ r.op = "googleDriveIncrementalSync"
        /\ r.activity = Undefined
        /\ r.signaled
        /\ RunBecomes(r, {[r EXCEPT !.activity = Some(d)]})

\* The incrementalSync activity of the workflow returns; with the last drive
\* the signal is consumed.
ActivityEnds ==
    \E r \in runs.open : \E last \in BOOLEAN :
        /\ r.activity # Undefined
        /\ RunBecomes(r, {[r EXCEPT !.activity = Undefined,
                                    !.signaled = IF last THEN FALSE ELSE @]})

\* A workflow with nothing left to do completes.
RunCompletes ==
    \E r \in runs.open :
        /\ r.activity = Undefined
        /\ ~r.signaled
        /\ RunBecomes(r, {})

\* Time passes between two launcher calls (a call takes far less than the
\* debounce window).
LaunchTick ==
    /\ \A c \in Callers : launch[c].pc = "idle"
    /\ Tick

\* ------------------------------------------------------- specifications
Next ==
    \/ RemoteChange
    \/ populateSyncTokens
    \/ Invoke
    \/ ObtainCursor
    \/ ObtainCursorFails
    \/ ListChanges
    \/ ListChangesFails
    \/ ProcessChange
    \/ ProcessChangeInvalid
    \/ ProcessChangeFails
    \/ FinishPage
    \/ PersistFails
    \/ Catch
    \/ Crash

\* Every interleaving of the remote drive, the orchestrator's invocations
\* (redeliveries included), failures and crashes.
Spec == Init /\ [][Next]_vars

\* The workflow loop alone, on a worker that keeps running: invocations are
\* chained through the returned cursor and stop at undefined or at an error.
DrainStep ==
    \/ DrainInvoke
    \/ ObtainCursor
    \/ ObtainCursorFails
    \/ ListChanges
    \/ ListChangesFails
    \/ ProcessChange
    \/ ProcessChangeInvalid
    \/ ProcessChangeFails
    \/ FinishPage
    \/ PersistFails
    \/ Catch

DrainNext ==
    \/ RemoteChange
    \/ populateSyncTokens
    \/ DrainStep

SpecDrain == Init /\ [][DrainNext]_vars /\ WF_vars(DrainStep)

\* ------------------------------------------- garbage collection on its own
\* The incremental-sync engine at rest.
SyncAtRest ==
    /\ feed = <<>>
    /\ syncToken = Undefined
    /\ pc = "idle"
    /\ argTok = Undefined
    /\ cur = Undefined
    /\ page = NoPage
    /\ i = 0
    /\ exc = "none"
    /\ result = Outcome("none", Undefined, "none")
    /\ lastCalls = {}
    /\ frontier = Undefined
    /\ chain = Fresh
    /\ store0 = [mirror |-> mirror, index |-> index]

StaleRow(id, parent, ts) ==
    [dustFileId |-> getDocumentId(id), name |-> id,
     mimeType |-> RemoteMimeOf(id), parentId |-> parent, lastSeenTs |-> ts]

\* Mirror stores earlier sync passes can have left: doc1 and sub1 in F1, doc2
\* in sub1, seen at different times or never stamped.
GcSeedMirrors ==
    {[id \in {"doc1", "sub1", "doc2"} |->
        CASE id = "doc1" -> StaleRow("doc1", "F1", t1)
          [] id = "sub1" -> StaleRow("sub1", "F1", 0)
          [] OTHER -> StaleRow("doc2", "sub1", 1)] :
     t1 \in {NullTs, 0, 1}}

\* The other connector mirrors the same document, and saw it long ago.
ForeignSeed == [id \in {"doc1"} |-> StaleRow("doc1", "F1", 0)]

\* What happens on the drive while garbage is collected: F1 is binned or
\* restored, access to it is lost or given back, sub1 is binned or restored,
\* doc1 is moved, deleted or shared again.
GcRemoteEdit ==
    \/ \E st \in {"live", "trashed", "gone"} :
          RemoteBecomes("F1", RemoteObject(st, ""))
    \/ \E st \in {"live", "trashed"} :
          RemoteBecomes("sub1", RemoteObject(st, "F1"))
    \/ \E obj \in {RemoteObject("live", "F1"), RemoteObject("live", "F2"),
                   RemoteObject("gone", "F1")} : RemoteBecomes("doc1", obj)

InitGC ==
    /\ now = 1
    /\ watched = {"F1"}
    /\ mirror \in GcSeedMirrors
    /\ index = IndexOf(mirror)
    /\ remote = RemoteInit
    /\ foreign = ForeignSeed
    /\ gc = GcIdle(GcResult("none", "none", 0, FALSE))
    /\ fs = FsIdle(FsResult("none", "none", Undefined, 0, {}))
    /\ OpsAtRest
    /\ SyncAtRest

NextGC ==
    \/ GcRemoteEdit
    \/ Tick
    \/ SelectFolders
    \/ GcSelect
    \/ GcTask
    \/ GcTaskFails
    \/ GcReturn
    \/ GcRaise
    \/ ShouldGarbageCollectCall

\* The garbage collector and its precheck against a remote drive and a scope
\* that keep changing.
SpecGC == InitGC /\ [][NextGC]_vars

\* ------------------------------------------ a folder leaves the watched scope
\* The change entry the feed records for an object of the drive.
ChangeOf(r, id) ==
    [changeType |-> "file",
     file |-> IF r[id].status = "gone"
              THEN Undefined
              ELSE Some(RemoteFile(id, id, RemoteMimeOf(id), r[id].parent,
                                   RemoteTrashed(r, id)))]

\* The drive the scope is reduced on: doc1 is in F1 or in F2, live, binned or
\* gone; sub1 is live or binned.
ScopeRemotes ==
    {[RemoteInit EXCEPT !["doc1"] = d, !["sub1"] = RemoteObject(st, "F1")] :
        d \in [status : {"live", "trashed", "gone"}, parent : {"F1", "F2"}],
        st \in {"live", "trashed"}}

\* Both folders are watched, every object has been mirrored before now, the
\* sync token stands at the start of the feed.
InitScope ==
    /\ now = 1
    /\ watched = {"F1", "F2"}
    /\ remote \in ScopeRemotes
    /\ mirror = [id \in {"doc1", "sub1", "doc2"} |->
                    StaleRow(id, remote[id].parent, 0)]
    /\ index = IndexOf(mirror)
    /\ foreign = ForeignSeed
    /\ gc = GcIdle(GcResult("none", "none", 0, FALSE))
    /\ fs = FsIdle(FsResult("none", "none", Undefined, 0, {}))
    /\ OpsAtRest
    /\ feed = <<>>
    /\ syncToken = Some(1)
    /\ pc = "idle"
    /\ argTok = Undefined
    /\ cur = Undefined
    /\ page = NoPage
    /\ i = 0
    /\ exc = "none"
    /\ result = Outcome("none", Undefined, "none")
    /\ lastCalls = {}
    /\ frontier = Some(1)
    /\ chain = Fresh
    /\ store0 = [mirror |-> mirror, index |-> index]

\* The user removes one folder from the selection, before the engines run.
Unwatch ==
    /\ watched = {"F1", "F2"}
    /\ \E f \in watched : watched' = watched \ {f}
    /\ UNCHANGED <<now, mirror, index, remote, foreign, gc, fs>>
    /\ UNCHANGED syncVars
    /\ UNCHANGED opsVars

\* The feed records a change of a descendant of the folders.
DescendantChange ==
    /\ watched # {"F1", "F2"}
    /\ chain.st = "fresh"
    /\ Len(feed) < MaxFeed
    /\ \E id \in {"doc1", "sub1", "doc2"} :
          feed' = Append(feed, ChangeOf(remote, id))
    /\ UNCHANGED <<now, watched, mirror, index, syncToken, pc, argTok, cur,
                   page, i, exc, result, lastCalls, frontier, chain, store0>>
    /\ UNCHANGED walkVars
    /\ UNCHANGED opsVars

\* The incremental-sync workflow runs over the feed.
ScopeSync ==
    /\ watched # {"F1", "F2"}
    /\ gc.pc = "idle"
    /\ DrainInvoke

\* The garbage-collection workflow: garbageCollector is called again, with
\* the same cutoff, until it returns 0; a call that raised is retried.
SweepSelect ==
    /\ watched # {"F1", "F2"}
    /\ gc.result # GcResult("garbageCollector", "returned", 0, FALSE)
    /\ GcSelectAt(now)

NextScope ==
    \/ Unwatch
    \/ DescendantChange
    \/ ScopeSync
    \/ ObtainCursor
    \/ ListChanges
    \/ ProcessChange
    \/ FinishPage
    \/ SweepSelect
    \/ GcTask
    \/ GcTaskFails
    \/ GcReturn
    \/ GcRaise

\* Incremental sync and garbage collection after a folder has left the
\* watched scope, on a drive at rest.
SpecScope == InitScope /\ [][NextScope]_vars

\* --------------------------------------------------- full sync on its own
\* Mirror stores the walk can find: nothing, or the rows an earlier
\* generation left, the folders marked at time 0.
WalkSeedMirrors ==
    { <<>>,
      [id \in {"F1", "sub1", "doc1"} |->
          StaleRow(id, RemoteInit[id].parent, 0)] }

InitWalk ==
    /\ now = 1
    /\ watched = {"F1"}
    /\ mirror \in WalkSeedMirrors
    /\ index = IndexOf(mirror)
    /\ remote = RemoteInit
    /\ foreign = ForeignSeed
    /\ gc = GcIdle(GcResult("none", "none", 0, FALSE))
    /\ fs = FsIdle(FsResult("none", "none", Undefined, 0, {}))
    /\ OpsAtRest
    /\ SyncAtRest

\* What happens on the drive during the walk: access to F1 is lost or given
\* back, sub1 is deleted or restored, doc1 is binned or restored, doc2 is
\* moved between sub1 and F1.
WalkRemoteEdit ==
    \/ \E st \in {"live", "gone"} : RemoteBecomes("F1", RemoteObject(st, ""))
    \/ \E st \in {"live", "gone"} :
          RemoteBecomes("sub1", RemoteObject(st, "F1"))
    \/ \E st \in {"live", "trashed"} :
          RemoteBecomes("doc1", RemoteObject(st, "F1"))
    \/ \E home \in {"sub1", "F1"} :
          RemoteBecomes("doc2", RemoteObject("live", home))

NextWalk ==
    \/ WalkRemoteEdit
    \/ Tick
    \/ FsInvoke
    \/ FsLookup
    \/ FsList
    \/ FsListFails
    \/ FsTask
    \/ FsTaskThrows
    \/ FsReturn
    \/ FsRaise
    \/ markFolderAsVisited

\* The full-sync walk, one folder page per invocation, against a drive that
\* keeps changing.
SpecWalk == InitWalk /\ [][NextWalk]_vars

\* ------------------------------------------------- webhook renewal on its own
\* Access to the drive F2 is lost while its webhook lives.
HookRemoteEdit ==
    /\ rw.pc = "idle"
    /\ RemoteBecomes("F2", RemoteObject("gone", ""))

\* The sync engines and the garbage collector at rest, nothing mirrored.
EnginesAtRest ==
    /\ watched = DriveIds
    /\ mirror = <<>>
    /\ index = {}
    /\ remote = RemoteInit
    /\ foreign = <<>>
    /\ gc = GcIdle(GcResult("none", "none", 0, FALSE))
    /\ fs = FsIdle(FsResult("none", "none", Undefined, 0, {}))
    /\ SyncAtRest

\* The connector has one webhook on each drive, registered at hour 0 on F1
\* and at hour 1 on F2.
InitHooks ==
    /\ now = 1
    /\ webhooks = [id \in {1, 2} |->
                      IF id = 1 THEN NewWebhookRow("F1", 0)
                      ELSE NewWebhookRow("F2", 1)]
    /\ created = 2
    /\ rw = RwIdle
    /\ errorType = "none"
    /\ LaunchAtRest
    /\ EnginesAtRest

NextHooks ==
    \/ HookRemoteEdit
    \/ Elapse
    \/ RwSelect
    \/ RwLookupFails
    \/ RwRetire
    \/ RwEnsure
    \/ RwEnsureFails
    \/ RwLink
    \/ RwCatch
    \/ RwSweep
    \/ RwReturn
    \/ RwCrash

\* Passes of renewWebhooks, with successes, failures and stops, while time
\* passes and access to the drives comes and goes.
SpecHooks == InitHooks /\ [][NextHooks]_vars

\* ---------------------------------------------------- launchers on their own
InitLaunch ==
    /\ now = 0
    /\ HooksAtRest
    /\ LaunchAtRest
    /\ EnginesAtRest

NextLaunch ==
    \/ \E c \in Callers : LaunchFullSync(c)
    \/ \E c \in Callers : LaunchGarbageCollector(c)
    \/ \E c \in Callers : LaunchTerminate(c)
    \/ \E c \in Callers : LaunchStart(c)
    \/ \E c \in Callers : LaunchFails(c)
    \/ RunCompletes

SpecLaunch == InitLaunch /\ [][NextLaunch]_vars

\* ------------------------------- the incremental-sync launcher and workflow
NextSignal ==
    \/ \E c \in Callers : LaunchIncrementalSync(c)
    \/ \E c \in Callers : LaunchSignalWithStart(c)
    \/ \E c \in Callers : LaunchFails(c)
    \/ ActivityStarts
    \/ ActivityEnds
    \/ RunCompletes
    \/ LaunchTick

SpecSignal == InitLaunch /\ [][NextSignal]_vars

\* ------------------------------------------- folder rows written repeatedly
\* The change feed holds the same entry for the folder sub1 twice, and the
\* cursor persisted for the drive stands before both.
InitUpsert ==
    /\ now = 1
    /\ watched = {"F1"}
    /\ mirror \in SeedMirrors
    /\ index = IndexOf(mirror)
    /\ remote = RemoteInit
    /\ foreign = <<>>
    /\ gc = GcIdle(GcResult("none", "none", 0, FALSE))
    /\ fs = FsIdle(FsResult("none", "none", Undefined, 0, {}))
    /\ OpsAtRest
    /\ feed = <<ChFolder, ChFolder>>
    /\ syncToken = Some(1)
    /\ pc = "idle"
    /\ argTok = Undefined
    /\ cur = Undefined
    /\ page = NoPage
    /\ i = 0
    /\ exc = "none"
    /\ result = Outcome("none", Undefined, "none")
    /\ lastCalls = {}
    /\ frontier = Undefined
    /\ chain = Fresh
    /\ store0 = [mirror |-> mirror, index |-> index]

\* incrementalSync, redelivered after a crash or not, and markFolderAsVisited
\* of the full sync work on the same folders while time passes.
NextUpsert ==
    \/ Invoke
    \/ ObtainCursor
    \/ ListChanges
    \/ ProcessChange
    \/ FinishPage
    \/ Crash
    \/ markFolderAsVisited
    \/ Tick

SpecUpsert == InitUpsert /\ [][NextUpsert]_vars

\* -------------------------------------------- the mutations of the mirror store
\* The objects the three components write rows for in the watched folder F1.
MutatedIds == {"sub1", "doc1", "doc2"}

\* The kinds of mutation: the upsert of incrementalSync and of the full sync
\* (content push included for a document), the delete of all three, and the
\* lastSeenTs refresh of the garbage collector.
MutationKinds == {"upsert", "delete", "refresh"}

\* The mirror store and the downstream index after one mutation of the row of
\* the object file at time t.
Mutated(m, idx, kind, file, t) ==
    CASE kind = "upsert" ->
            IF file.mimeType = FOLDER_MIME
            THEN [mirror |-> Upsert(m, file.id, FileRow(file, t)),
                  index |-> idx]
            ELSE syncOneFile(m, idx, file, t)
      [] kind = "delete" -> deleteOneFile(m, idx, file)
      [] OTHER ->
            [mirror |-> GcRefresh(m, <<>>, idx, <<"own", file.id>>, t).mirror,
             index |-> idx]

\* One of the components applies a mutation to the row of a live object.
MutateStore ==
    /\ pc = "idle"
    /\ gc.pc = "idle"
    /\ fs.pc = "idle"
    /\ \E kind \in MutationKinds : \E id \in MutatedIds :
          LET file == getGoogleDriveObject(remote, id)
              after == Mutated(mirror, index, kind, file[1], now)
          IN  /\ file # Undefined
              /\ mirror' = after.mirror
              /\ index' = after.index
    /\ UNCHANGED <<now, watched, remote, foreign, gc, fs>>
    /\ UNCHANGED syncVars
    /\ UNCHANGED opsVars

\* The document doc2 is moved between sub1 and F1.
MutateRemoteEdit ==
    \E home \in {"sub1", "F1"} :
        RemoteBecomes("doc2", RemoteObject("live", home))

InitMutate ==
    /\ now = 1
    /\ watched = {"F1"}
    /\ mirror \in SeedMirrors
    /\ index = IndexOf(mirror)
    /\ remote = RemoteInit
    /\ foreign = <<>>
    /\ gc = GcIdle(GcResult("none", "none", 0, FALSE))
    /\ fs = FsIdle(FsResult("none", "none", Undefined, 0, {}))
    /\ OpsAtRest
    /\ SyncAtRest

NextMutate ==
    \/ MutateStore
    \/ MutateRemoteEdit
    \/ Tick

\* The mutations of the three components, one at a time, in any order.
SpecMutate == InitMutate /\ [][NextMutate]_vars

\* ------------------------------------------- entries that lack a field
\* Change entries for doc1 in F1 whose file resource lacks its MIME type, its
\* id or its creation time (ChInvalid lacks the name).
ChNoMime ==
    [changeType |-> "file",
     file |-> Some(RemoteFile("doc1", "doc1", "", "F1", FALSE))]
ChNoId ==
    [changeType |-> "file",
     file |-> Some(RemoteFile("", "doc1", DOC_MIME, "F1", FALSE))]
ChNoCreated ==
    [changeType |-> "file",
     file |-> Some([RemoteFile("doc1", "doc1", DOC_MIME, "F1", FALSE)
                      EXCEPT !.createdTime = ""])]

DefectChanges == {ChNoMime, ChNoId, ChNoCreated, ChInvalid, ChUpdate}

\* The fields of a listed file resource syncFiles looks at.
ListedFields == {"id", "createdTime", "name", "mimeType"}

\* The file resource files.list answers for a child.
ListedResource(r, id) ==
    RemoteFile(id, id, RemoteMimeOf(id), r[id].parent, RemoteTrashed(r, id))

\* filesToSync of syncFiles: the resources without id or createdTime are
\* filtered out, and one of the others without name or mimeType throws.
FilesToSync(raw) ==
    LET kept == SelectSeq(raw, LAMBDA f : f.id # "" /\ f.createdTime # "")
    IN  IF \E k \in 1..Len(kept) :
              \/ kept[k].id = ""
              \/ kept[k].createdTime = ""
              \/ kept[k].name = ""
              \/ kept[k].mimeType = ""
        THEN [raised |-> TRUE, files |-> <<>>]
        ELSE [raised |-> FALSE,
              files |-> [k \in 1..Len(kept) |-> driveObjectToDustType(kept[k])]]

\* drive.files.list answers a page in which the resource of one child lacks a
\* field.
FsListDefective ==
    /\ fs.pc = "list"
    /\ \E lag \in BOOLEAN : \E field \in ListedFields :
          LET t == IF fs.token = Undefined THEN 1 ELSE fs.token[1]
              res == filesList(remote, fs.folder, t, lag)
              raw == [k \in 1..Len(res.files) |->
                         IF k = 1
                         THEN [ListedResource(remote, res.files[k])
                                 EXCEPT ![field] = ""]
                         ELSE ListedResource(remote, res.files[k])]
              listed == FilesToSync(raw)
              g == [fs EXCEPT !.calls = @ \cup {"files.list"}]
          IN  /\ res.files # <<>>
              /\ fs' = IF listed.raised
                       THEN FsEnd(g, FsResult("syncFiles", "raised", Undefined,
                                              0, {}))
                       ELSE [g EXCEPT !.pc = "tasks",
                                      !.walked = @ \cup {fs.folder},
                                      !.files = listed.files,
                                      !.next = res.nextPageToken,
                                      !.todo = 1..Len(listed.files)]
    /\ UNCHANGED <<now, watched, mirror, index, remote, foreign, gc>>
    /\ UNCHANGED syncVars
    /\ UNCHANGED opsVars

\* The change feed holds two entries, complete or not, after the persisted
\* cursor.
InitInvalid ==
    /\ now = 1
    /\ watched = {"F1"}
    /\ mirror \in SeedMirrors
    /\ index = IndexOf(mirror)
    /\ remote = RemoteInit
    /\ foreign = <<>>
    /\ gc = GcIdle(GcResult("none", "none", 0, FALSE))
    /\ fs = FsIdle(FsResult("none", "none", Undefined, 0, {}))
    /\ OpsAtRest
    /\ feed \in [1..2 -> DefectChanges]
    /\ syncToken = Some(1)
    /\ pc = "idle"
    /\ argTok = Undefined
    /\ cur = Undefined
    /\ page = NoPage
    /\ i = 0
    /\ exc = "none"
    /\ result = Outcome("none", Undefined, "none")
    /\ lastCalls = {}
    /\ frontier = Undefined
    /\ chain = Fresh
    /\ store0 = [mirror |-> mirror, index |-> index]

NextInvalid ==
    \/ Invoke
    \/ ObtainCursor
    \/ ListChanges
    \/ ProcessChange
    \/ ProcessChangeInvalid
    \/ FinishPage
    \/ Catch
    \/ FsInvoke
    \/ FsLookup
    \/ FsList
    \/ FsListDefective
    \/ FsTask
    \/ FsReturn

\* incrementalSync and syncFiles against a provider whose file resources can
\* lack a field.
SpecInvalid == InitInvalid /\ [][NextInvalid]_vars

\* ------------------------------------------------------- the task queues
\* const FILES_SYNC_CONCURRENCY = 10 and const FILES_GC_CONCURRENCY = 5: the
\* concurrency of the PQueue of syncFiles and of garbageCollector.
FILES_SYNC_CONCURRENCY == 10
FILES_GC_CONCURRENCY == 5

\* The documents of a long folder, in the order files.list answers them.
QueueNames ==
    <<"q01", "q02", "q03", "q04", "q05", "q06", "q07", "q08", "q09", "q10",
      "q11", "q12", "q13", "q14", "q15", "q16">>

\* Every third document of the long folder is in the bin.
QueueStatus(k) == IF k % 3 = 0 THEN "trashed" ELSE "live"

\* The remote drive with the long folder: MaxQueue more documents in F1.
RemoteQueue ==
    [id \in RemoteIds \cup {QueueNames[k] : k \in 1..MaxQueue} |->
        IF id \in RemoteIds THEN RemoteInit[id]
        ELSE RemoteObject(
                 QueueStatus(CHOOSE k \in 1..MaxQueue : QueueNames[k] = id),
                 "F1")]

\* Faulty variant of QueueAdmits: the queue starts every task it is given.
QueueAdmitsAll(running, concurrency) == TRUE

\* new PQueue({ concurrency }): the queue starts a waiting task while fewer
\* than concurrency tasks are running.
QueueAdmits(running, concurrency) == running < concurrency

\* The tasks of syncFiles the queue has started and that have not settled.
FsInFlight(f) == (1..Len(f.files)) \ (f.todo \cup f.done)

\* The tasks of garbageCollector the queue has started and that have not
\* settled.
GcInFlight(g) == g.files \ (g.todo \cup g.done)

\* garbageCollector has selected the stale rows of the long folder and
\* queue.add hands their tasks to the queue.
GcSelectLong ==
    /\ gc.pc = "idle"
    /\ gc.result.kind = "none"
    /\ fs.pc = "idle"
    /\ LET files == GcCandidates(mirror, foreign, now)
       IN  /\ Cardinality(files) = MaxGcQueue
           /\ gc' = [GcIdle(gc.result) EXCEPT
                        !.pc = "tasks", !.cutoff = now, !.files = files,
                        !.todo = files, !.folders = getFoldersToSync]
    /\ UNCHANGED <<now, watched, mirror, index, remote, foreign, fs>>
    /\ UNCHANGED syncVars
    /\ UNCHANGED opsVars

\* The queue of garbageCollector starts the task of a waiting row.
GcTaskStarts ==
    /\ gc.pc = "tasks"
    /\ QueueAdmits(Cardinality(GcInFlight(gc)), FILES_GC_CONCURRENCY)
    /\ \E key \in gc.todo : gc' = [gc EXCEPT !.todo = @ \ {key}]
    /\ UNCHANGED <<now, watched, mirror, index, remote, foreign, fs>>
    /\ UNCHANGED syncVars
    /\ UNCHANGED opsVars

\* A running task of garbageCollector runs to its end.
GcTaskEnds ==
    /\ gc.pc = "tasks"
    /\ \E key \in GcInFlight(gc) :
         LET after == GcTaskEffect(mirror, foreign, index, key, remote,
                                   gc.folders, now)
             gone == key[2] \notin DOMAIN RowsOf(key[1], after.mirror,
                                                 after.foreign)
         IN  /\ mirror' = after.mirror
             /\ foreign' = after.foreign
             /\ index' = after.index
             /\ gc' = [gc EXCEPT !.done = @ \cup {key},
                                 !.deleted = IF gone THEN @ \cup {key} ELSE @]
    /\ UNCHANGED <<now, watched, remote, fs>>
    /\ UNCHANGED syncVars
    /\ UNCHANGED opsVars

\* syncFiles on F1 has listed the page of the long folder and queue.add hands
\* the tasks of its children to the queue.
FsListLong ==
    /\ fs.pc = "idle"
    /\ fs.result.kind = "none"
    /\ gc.pc = "idle"
    /\ gc.result.kind = "returned"
    /\ fs' = [FsIdle(fs.result) EXCEPT
                 !.pc = "tasks", !.folder = "F1", !.startSyncTs = now,
                 !.files = [k \in 1..MaxQueue |->
                               ListedFile(remote, QueueNames[k])],
                 !.todo = 1..MaxQueue, !.calls = {"files.list"},
                 !.walked = {"F1"}]
    /\ UNCHANGED <<now, watched, mirror, index, remote, foreign, gc>>
    /\ UNCHANGED syncVars
    /\ UNCHANGED opsVars

\* The queue of syncFiles starts the task of the first waiting child.
FsTaskStarts ==
    /\ fs.pc = "tasks"
    /\ fs.todo # {}
    /\ QueueAdmits(Cardinality(FsInFlight(fs)), FILES_SYNC_CONCURRENCY)
    /\ LET k == CHOOSE x \in fs.todo : \A y \in fs.todo : x <= y
       IN  fs' = [fs EXCEPT !.todo = @ \ {k}]
    /\ UNCHANGED <<now, watched, mirror, index, remote, foreign, gc>>
    /\ UNCHANGED syncVars
    /\ UNCHANGED opsVars

\* A running task of syncFiles runs to its end; the content fetch of
\* syncOneFile succeeds or fails.
FsTaskEnds ==
    /\ fs.pc = "tasks"
    /\ \E k \in FsInFlight(fs), fetched \in BOOLEAN :
          LET after == FsTaskEffect(mirror, index, fs.files[k], now, fetched)
          IN  /\ mirror' = after.mirror
              /\ index' = after.index
              /\ fs' = [FsAfterTask(fs, k, after.ok) EXCEPT
                           !.calls = IF fs.files[k].trashed
                                        \/ fs.files[k].mimeType = FOLDER_MIME
                                     THEN @ ELSE @ \cup {"files.export"}]
    /\ UNCHANGED <<now, watched, remote, foreign, gc>>
    /\ UNCHANGED syncVars
    /\ UNCHANGED opsVars

\* The mirror store holds a stale row for each of the first MaxGcQueue
\* documents of the long folder.
InitQueue ==
    /\ now = 1
    /\ watched = {"F1"}
    /\ mirror = [id \in {QueueNames[k] : k \in 1..MaxGcQueue} |->
                    StaleRow(id, "F1", 0)]
    /\ index = IndexOf(mirror)
    /\ remote = RemoteQueue
    /\ foreign = <<>>
    /\ gc = GcIdle(GcResult("none", "none", 0, FALSE))
    /\ fs = FsIdle(FsResult("none", "none", Undefined, 0, {}))
    /\ OpsAtRest
    /\ SyncAtRest

NextQueue ==
    \/ GcSelectLong
    \/ GcTaskStarts
    \/ GcTaskEnds
    \/ GcReturn
    \/ FsListLong
    \/ FsTaskStarts
    \/ FsTaskEnds
    \/ FsReturn

\* A garbage collection and then a listing of a folder with more children
\* than the queues run at once.
SpecQueue == InitQueue /\ [][NextQueue]_vars

\* ------------------------------------- the full-sync walk of a generation
\* The workflow of the full sync calls syncFiles on a folder of the walk, with
\* the start of the generation: on its first page, or on the page whose
\* cursor the previous invocation on the folder returned.
WalkInvoke ==
    /\ fs.pc = "idle"
    /\ gc.pc = "idle"
    /\ \E folder \in {"F1", "sub1"},
          token \in {Undefined, fs.result.nextPageToken} :
          /\ token # Undefined =>
                /\ fs.result.op = "syncFiles"
                /\ folder = fs.folder
          /\ fs' = [FsIdle(FsResult("syncFiles", "running", Undefined, 0, {}))
                      EXCEPT !.pc = "lookup", !.folder = folder,
                             !.startSyncTs = IF fs.result.op = "none" THEN now
                                             ELSE fs.startSyncTs,
                             !.token = token, !.walked = fs.walked]
    /\ UNCHANGED <<now, watched, mirror, index, remote, foreign, gc>>
    /\ UNCHANGED syncVars
    /\ UNCHANGED opsVars

\* The workflow calls markFolderAsVisited on the folder whose last page
\* syncFiles has just listed and synced.
WalkMark ==
    /\ fs.pc = "idle"
    /\ gc.pc = "idle"
    /\ fs.result.op = "syncFiles"
    /\ fs.result.kind = "returned"
    /\ fs.result.nextPageToken = Undefined
    /\ "files.list" \in fs.calls
    /\ mirror' = VisitedRows(mirror, remote, fs.folder, now)
    /\ fs' = [FsIdle(FsResult("markFolderAsVisited", "returned", Undefined,
                              0, {}))
                EXCEPT !.folder = fs.folder, !.startSyncTs = fs.startSyncTs,
                       !.calls = {"files.get"}, !.walked = fs.walked]
    /\ UNCHANGED <<now, watched, index, remote, foreign, gc>>
    /\ UNCHANGED syncVars
    /\ UNCHANGED opsVars

\* A generation of the full sync starts on F1 while the change feed holds two
\* entries incrementalSync has not applied yet.
InitCover ==
    /\ now = 1
    /\ watched = {"F1"}
    /\ mirror \in SeedMirrors
    /\ index = IndexOf(mirror)
    /\ remote = RemoteInit
    /\ foreign = <<>>
    /\ gc = GcIdle(GcResult("none", "none", 0, FALSE))
    /\ fs = FsIdle(FsResult("none", "none", Undefined, 0, {}))
    /\ OpsAtRest
    /\ feed \in [1..2 -> {ChFolder, ChUpdate}]
    /\ syncToken = Some(1)
    /\ pc = "idle"
    /\ argTok = Undefined
    /\ cur = Undefined
    /\ page = NoPage
    /\ i = 0
    /\ exc = "none"
    /\ result = Outcome("none", Undefined, "none")
    /\ lastCalls = {}
    /\ frontier = Undefined
    /\ chain = Fresh
    /\ store0 = [mirror |-> mirror, index |-> index]

NextCover ==
    \/ Invoke
    \/ ObtainCursor
    \/ ListChanges
    \/ ProcessChange
    \/ FinishPage
    \/ WalkInvoke
    \/ FsLookup
    \/ FsList
    \/ FsTask
    \/ FsReturn
    \/ WalkMark

\* One generation of the full sync of F1 while incrementalSync applies the
\* change feed of the same connector.
SpecCover == InitCover /\ [][NextCover]_vars

\* ------------------------------------- the garbage collector run to its end
\* args: [connector.id, new Date().getTime()]: the cutoff the launcher hands
\* to the workflow is the time of the launch.
GcLaunchTs == 1

\* The drives the collection can meet: doc1 is live, in the bin or gone, sub1
\* is live or in the bin.
GcDrainRemotes ==
    {[RemoteInit EXCEPT !["doc1"] = RemoteObject(d, "F1"),
                        !["sub1"] = RemoteObject(s, "F1")] :
        d \in {"live", "trashed", "gone"}, s \in {"live", "trashed"}}

\* The stores the collection starts on: the three rows are stale, more than a
\* call selects.
GcDrainMirrors ==
    {[id \in {"doc1", "sub1", "doc2"} |->
        CASE id = "doc1" -> StaleRow("doc1", "F1", t1)
          [] id = "sub1" -> StaleRow("sub1", "F1", 0)
          [] OTHER -> StaleRow("doc2", "sub1", 0)] :
     t1 \in {NullTs, 0}}

\* The workflow calls garbageCollector with the cutoff of the launch, again
\* and again until a call returns 0.
GcDrainSelect ==
    /\ \/ gc.result.kind = "none"
       \/ gc.result.kind = "returned" /\ gc.result.count > 0
    /\ GcSelectAt(GcLaunchTs)

GcDrainStep ==
    \/ GcDrainSelect
    \/ GcTask
    \/ GcReturn

InitGcDrain ==
    /\ now = GcLaunchTs
    /\ watched = {"F1"}
    /\ mirror \in GcDrainMirrors
    /\ index = IndexOf(mirror)
    /\ remote \in GcDrainRemotes
    /\ foreign = ForeignSeed
    /\ gc = GcIdle(GcResult("none", "none", 0, FALSE))
    /\ fs = FsIdle(FsResult("none", "none", Undefined, 0, {}))
    /\ OpsAtRest
    /\ SyncAtRest

NextGcDrain ==
    \/ GcDrainSelect
    \/ GcTask
    \/ GcReturn
    \/ Tick

\* The garbage-collection workflow alone, on a worker that keeps running,
\* without failures and without another writer of the store.
SpecGcDrain == InitGcDrain /\ [][NextGcDrain]_vars /\ WF_vars(GcDrainStep)

\* --------------------------------------------- deleteFile, call by call
\* Faulty variant of DeleteStepAt: the row is destroyed before the downstream
\* removal.
DeleteStepAtRowFirst(k) == IF k = 1 THEN "destroy" ELSE "downstream"

\* The calls of deleteFile in the order of its body: deleteFromDataSource,
\* then googleDriveFile.destroy().
DeleteStepAt(k) == IF k = 1 THEN "downstream" ELSE "destroy"

\* The positions of incrementalSync before each call of deleteFile.
DeletePc == <<"delete1", "delete2">>

\* The store after one call of deleteFile on the row id.
DeleteStepEffect(step, m, idx, id) ==
    IF id \notin DOMAIN m THEN [mirror |-> m, index |-> idx]
    ELSE IF step = "downstream"
    THEN [mirror |-> m, index |-> deleteFile(m, idx, id).index]
    ELSE [mirror |-> deleteFile(m, idx, id).mirror, index |-> idx]

\* The external calls of one call of deleteFile on the row id.
DeleteStepCalls(step, m, id) ==
    IF step = "downstream" /\ id \in DOMAIN m /\ m[id].mimeType # FOLDER_MIME
    THEN {"index.delete"}
    ELSE {}

\* A pass of the loop body on an entry that is not to be deleted.
ProcessChangeKept ==
    /\ pc = "loop"
    /\ i <= Len(page.changes)
    /\ ChangeBranch(LoopEntry(page, i), getFoldersToSync) # "delete"
    /\ ProcessChange

\* The loop body on an entry out of scope or in the bin: deleteOneFile looks
\* the row up; without a row the pass ends, with one deleteFile begins.
DeleteBegins ==
    /\ pc = "loop"
    /\ i <= Len(page.changes)
    /\ ChangeBranch(LoopEntry(page, i), getFoldersToSync) = "delete"
    /\ lastCalls' = {"files.get"}
    /\ IF LoopEntry(page, i).file[1].id \in DOMAIN mirror
       THEN /\ pc' = DeletePc[1]
            /\ UNCHANGED <<i, frontier, chain>>
       ELSE /\ i' = i + 1
            /\ frontier' = IF frontier = Some(cur[1] + i - 1)
                           THEN Some(cur[1] + i)
                           ELSE frontier
            /\ chain' = IF chain.st = "run" THEN [chain EXCEPT !.n = @ + 1]
                        ELSE chain
            /\ UNCHANGED pc
    /\ UNCHANGED <<feed, now, watched, mirror, index, syncToken, argTok, cur,
                   page, exc, result, store0>>
    /\ UNCHANGED walkVars
    /\ UNCHANGED opsVars

\* One call of deleteFile returns; after the last the pass ends.
DeleteStep ==
    /\ \E k \in 1..Len(DeletePc) :
          LET id == LoopEntry(page, i).file[1].id
              after == DeleteStepEffect(DeleteStepAt(k), mirror, index, id)
          IN  /\ pc = DeletePc[k]
              /\ mirror' = after.mirror
              /\ index' = after.index
              /\ lastCalls' = lastCalls
                                \cup DeleteStepCalls(DeleteStepAt(k), mirror, id)
              /\ IF k < Len(DeletePc)
                 THEN /\ pc' = DeletePc[k + 1]
                      /\ UNCHANGED <<i, frontier, chain>>
                 ELSE /\ pc' = "loop"
                      /\ i' = i + 1
                      /\ frontier' = IF frontier = Some(cur[1] + i - 1)
                                     THEN Some(cur[1] + i)
                                     ELSE frontier
                      /\ chain' = IF chain.st = "run"
                                  THEN [chain EXCEPT !.n = @ + 1]
                                  ELSE chain
    /\ UNCHANGED <<feed, now, watched, syncToken, argTok, cur, page, exc,
                   result, store0>>
    /\ UNCHANGED walkVars
    /\ UNCHANGED opsVars

\* A call of deleteFile fails (the downstream index or the database) before it
\* has had an effect, and deleteFile throws.
DeleteStepFails ==
    /\ pc \in {DeletePc[k] : k \in 1..Len(DeletePc)}
    /\ Throw("other")
    /\ UNCHANGED <<feed, now, watched, mirror, index, syncToken, argTok, cur,
                   page, i, result, lastCalls, frontier, chain, store0>>
    /\ UNCHANGED walkVars
    /\ UNCHANGED opsVars

\* The change feed holds two entries, deletions among them, after the
\* persisted cursor.
InitDelete ==
    /\ now = 1
    /\ watched = {"F1"}
    /\ mirror \in SeedMirrors
    /\ index = IndexOf(mirror)
    /\ remote = RemoteInit
    /\ foreign = <<>>
    /\ gc = GcIdle(GcResult("none", "none", 0, FALSE))
    /\ fs = FsIdle(FsResult("none", "none", Undefined, 0, {}))
    /\ OpsAtRest
    /\ feed \in [1..2 -> {ChTrash, ChMoved, ChFolderTrash, ChUpdate}]
    /\ syncToken = Some(1)
    /\ pc = "idle"
    /\ argTok = Undefined
    /\ cur = Undefined
    /\ page = NoPage
    /\ i = 0
    /\ exc = "none"
    /\ result = Outcome("none", Undefined, "none")
    /\ lastCalls = {}
    /\ frontier = Undefined
    /\ chain = Fresh
    /\ store0 = [mirror |-> mirror, index |-> index]

NextDelete ==
    \/ Invoke
    \/ ObtainCursor
    \/ ListChanges
    \/ ProcessChangeKept
    \/ DeleteBegins
    \/ DeleteStep
    \/ DeleteStepFails
    \/ FinishPage
    \/ Catch

\* incrementalSync with the calls of deleteFile as steps of their own, each
\* of which can fail.
SpecDelete == InitDelete /\ [][NextDelete]_vars

\* ------------------------------------------- a folder of more than one page
\* Another run of the full sync marks a folder visited while this walk is
\* between two invocations and holds the cursor of its next page.
markFolderAsVisitedElsewhere ==
    /\ fs.pc = "idle"
    /\ gc.pc = "idle"
    /\ \E folder \in {"F1", "sub1"} :
          mirror' = VisitedRows(mirror, remote, folder, now)
    /\ UNCHANGED <<now, watched, index, remote, foreign, gc, fs>>
    /\ UNCHANGED syncVars
    /\ UNCHANGED opsVars

\* F1 holds doc1, doc2 and sub1: more children than a page of files.list.
InitPages ==
    /\ now = 1
    /\ watched = {"F1"}
    /\ mirror \in SeedMirrors
    /\ index = IndexOf(mirror)
    /\ remote = [RemoteInit EXCEPT !["doc2"] = RemoteObject("live", "F1")]
    /\ foreign = <<>>
    /\ gc = GcIdle(GcResult("none", "none", 0, FALSE))
    /\ fs = FsIdle(FsResult("none", "none", Undefined, 0, {}))
    /\ OpsAtRest
    /\ SyncAtRest

NextPages ==
    \/ Tick
    \/ FsInvoke
    \/ FsLookup
    \/ FsList
    \/ FsTask
    \/ FsReturn
    \/ markFolderAsVisitedElsewhere

\* The walk of a folder of two pages while another run marks folders visited.
SpecPages == InitPages /\ [][NextPages]_vars

\* ------------------------------------------- the webhook-renewal launcher
\* launchGoogleDriveRenewWebhooksWorkflow() up to the terminate of the
\* previous run: it takes no connector and refuses nothing.
LaunchRenewWebhooks(c) ==
    /\ launch[c].pc = "idle"
    /\ LaunchGoes(c, "terminate", "googleDriveRenewWebhooks", "")
    /\ UNCHANGED <<now, runs, limiter>>
    /\ LaunchFrame

NextLaunchRenew ==
    \/ \E c \in Callers : LaunchIncrementalSync(c)
    \/ \E c \in Callers : LaunchRenewWebhooks(c)
    \/ \E c \in Callers : LaunchTerminate(c)
    \/ \E c \in Callers : LaunchStart(c)
    \/ \E c \in Callers : LaunchSignalWithStart(c)
    \/ \E c \in Callers : LaunchFails(c)
    \/ RunCompletes

\* The launchers of the webhook renewal and of the incremental sync against
\* an orchestrator that can fail; SpecLaunch has the other two.
SpecLaunchRenew == InitLaunch /\ [][NextLaunchRenew]_vars

\* ---------------------------------------------------------------- claims
\* A step in which the invocation returns after its page (not from the catch
\* block).
ReturnsAfterPage == pc = "loop" /\ pc' = "idle" /\ result'.kind = "returned"

\* A step in which the loop body has run to its end on the entry at i.
Applies == pc = "loop" /\ pc' = "loop" /\ i' = i + 1

\* C1: incrementalSync writes the persisted sync token only after every entry
\* of the page it read has been applied, in the step that returns; a throw or
\* a crash leaves the token as it was; so every entry between the first
\* persisted token and the persisted token has been fully applied.
C1_CursorOnlyAfterPage ==
    /\ [](syncToken # Undefined =>
            frontier # Undefined /\ syncToken[1] <= frontier[1])
    /\ [][(pc # "idle" /\ syncToken' # syncToken) =>
            (i > Len(page.changes) /\ ReturnsAfterPage)]_vars
    /\ [][(pc # "idle" /\ (pc' = "catch" \/ result'.kind \in {"raised", "crashed"}))
            => syncToken' = syncToken]_vars

\* C1 witness: the second entry of a two-entry last page threw after the first
\* was applied, and the persisted token still is the one the page was read at.
C1_ThrowMidPage ==
    /\ pc = "catch"
    /\ i = 2
    /\ Len(page.changes) = 2
    /\ page.newStartPageToken = Some(3)
    /\ syncToken = Some(1)
    /\ cur = Some(1)

\* C2 as claimed: every invocation that consumes a page without error leaves
\* the position after that page persisted.
C2_PersistedAfterEveryPage ==
    [][ReturnsAfterPage => syncToken' = Some(cur[1] + Len(page.changes))]_vars

\* C2 amended: the position after the page is persisted when the page is the
\* last one of the feed (the response carries newStartPageToken); after any
\* other page the persisted token is unchanged; an invocation without explicit
\* cursor lists at the persisted token.
C2_PersistedAfterLastPage ==
    /\ [][ReturnsAfterPage =>
            syncToken' = IF page.nextPageToken = Undefined
                         THEN Some(cur[1] + Len(page.changes))
                         ELSE syncToken]_vars
    /\ [][(pc = "start" /\ pc' = "list" /\ argTok = Undefined
            /\ syncToken # Undefined) => cur' = syncToken]_vars

\* C2 witness: an invocation consumed a page that was not the last one and
\* returned the next cursor, while the persisted token stayed behind it.
C2_ReturnedAheadOfPersisted ==
    /\ pc = "idle"
    /\ result.kind = "returned"
    /\ result.value = Some(3)
    /\ syncToken = Some(1)
    /\ frontier = Some(3)

\* Processing a change list in a single pass, from a mirror store and index.
RECURSIVE OnePass(_, _, _, _)
OnePass(st, changes, foldersIds, t) ==
    IF changes = <<>> THEN st
    ELSE OnePass(ApplyChange(st.mirror, st.index, Head(changes), foldersIds, t),
                 Tail(changes), foldersIds, t)

\* A mirror store without the wall-clock stamps of its rows.
StripTs(m) ==
    [x \in DOMAIN m |->
        [dustFileId |-> m[x].dustFileId, name |-> m[x].name,
         mimeType |-> m[x].mimeType, parentId |-> m[x].parentId]]

\* C3: when consecutive invocations, each fed the cursor the previous one
\* returned, have exhausted the feed, the persisted token is the position
\* after the last entry consumed, and the mirror store (up to lastSeenTs) and
\* the downstream index are those of one pass over the concatenated entries.
C3_PagingEquivalent ==
    chain.st = "done" =>
        LET consumed == SubSeq(feed, chain.from, chain.from + chain.n - 1)
            one == OnePass(store0, consumed, watched, now)
        IN  /\ syncToken = Some(chain.from + chain.n)
            /\ StripTs(mirror) = StripTs(one.mirror)
            /\ index = one.index

\* C3 witness: two invocations consumed a feed of three entries in two pages
\* and changed the mirror store.
C3_TwoPagesDone ==
    /\ chain.st = "done"
    /\ chain.from = 1
    /\ chain.n = PageSize + 1
    /\ mirror # store0.mirror

\* C4: the persisted token never moves to an earlier position (nor back to
\* none), and populateSyncTokens leaves a persisted token as it is.
C4_CursorMonotone ==
    /\ [][syncToken # Undefined =>
            (syncToken' # Undefined /\ syncToken'[1] >= syncToken[1])]_vars
    /\ [][(pc = "idle" /\ pc' = "idle" /\ syncToken # Undefined)
            => syncToken' = syncToken]_vars

\* C4 witness: populateSyncTokens ran after the invocations had advanced the
\* persisted token, with the feed already grown past that token.
C4_PopulateAfterAdvance ==
    /\ "drives.list" \in lastCalls
    /\ chain.st = "done"
    /\ chain.n >= 1
    /\ syncToken = Some(chain.from + chain.n)
    /\ Len(feed) >= syncToken[1]

\* C5: the cursor is the argument if given, else the persisted token if there
\* is one, else a start token requested from the remote provider; the request
\* is made in the third case and only then.
C5_CursorPriority ==
    /\ [][(pc = "start" /\ pc' = "list") =>
            cur' = IF argTok # Undefined THEN argTok
                   ELSE IF syncToken # Undefined THEN syncToken
                   ELSE Some(Len(feed) + 1)]_vars
    /\ [][(pc = "start" /\ pc' \in {"list", "catch"}) =>
            (("changes.getStartPageToken" \in lastCalls')
                <=> (argTok = Undefined /\ syncToken = Undefined))]_vars

\* C5 witness: an invocation given a cursor lists with it although another
\* token is persisted.
C5_ExplicitOverPersisted ==
    /\ pc = "list"
    /\ argTok = Some(3)
    /\ syncToken = Some(1)
    /\ cur = Some(3)

\* The entry the loop body is at.
Entry == page.changes[i]

\* The entry is a file change with a file of a syncable MIME type.
Syncable(c) ==
    /\ c.changeType = "file"
    /\ c.file # Undefined
    /\ c.file[1].mimeType \in getMimeTypesToSync

\* The entry's file lies within a watched folder.
InScope(c) == objectIsInFolders(driveObjectToDustType(c.file[1]), watched)

\* C6: applying a syncable file change whose file is trashed or outside every
\* watched folder deletes the file's row and its downstream document if the
\* row exists, touching nothing else, and changes nothing if it does not.
C6_OutOfScopeOrTrashedDeleted ==
    [][(Applies /\ Syncable(Entry) /\ (Entry.file[1].trashed \/ ~InScope(Entry)))
        => LET id == Entry.file[1].id
           IN  IF id \in DOMAIN mirror
               THEN /\ mirror' = Destroy(mirror, id)
                    /\ getDocumentId(id) \notin index'
                    /\ index' \ {getDocumentId(id)} = index \ {getDocumentId(id)}
               ELSE mirror' = mirror /\ index' = index]_vars

\* C6 witness: the feed [update(doc1, trashed)] was applied with doc1 mirrored
\* before; doc1 is gone from the mirror store and from the downstream index.
C6_TrashedDocGone ==
    /\ pc = "loop"
    /\ cur = Some(1)
    /\ i = 2
    /\ page.changes = <<ChTrash>>
    /\ "doc1" \in DOMAIN store0.mirror
    /\ getDocumentId("doc1") \in store0.index
    /\ "doc1" \notin DOMAIN mirror
    /\ getDocumentId("doc1") \notin index
    /\ "index.delete" \in lastCalls

\* C7: applying a change that is in scope and not trashed upserts a folder as
\* a row only, with no call to the downstream index, and syncs any other file
\* through syncOneFile.
C7_InScopeFolderOrFile ==
    [][(Applies /\ Syncable(Entry) /\ ~Entry.file[1].trashed /\ InScope(Entry))
        => LET file == driveObjectToDustType(Entry.file[1])
           IN  IF file.mimeType = FOLDER_MIME
               THEN /\ mirror' = Upsert(mirror, file.id, FileRow(file, now))
                    /\ index' = index
                    /\ lastCalls' \cap {"index.upsert", "index.delete"} = {}
               ELSE /\ mirror' = syncOneFile(mirror, index, file, now).mirror
                    /\ index' = syncOneFile(mirror, index, file, now).index
                    /\ "index.upsert" \in lastCalls']_vars

\* C7 witness: a page with a folder and a document, both in scope, applied to
\* an empty mirror store: two rows, one downstream document.
C7_FolderAndDocApplied ==
    /\ pc = "loop"
    /\ i = 3
    /\ page.changes = <<ChFolder, ChUpdate>>
    /\ store0.mirror = <<>>
    /\ DOMAIN mirror = {"sub1", "doc1"}
    /\ index = {getDocumentId("doc1")}

\* C8: an entry that is no file change, has no file, or has a file whose MIME
\* type is not syncable is passed over: mirror store and downstream index
\* stay as they are and no external call is made.
C8_SkippedEntryChangesNothing ==
    [][(pc = "loop" /\ i' = i + 1 /\ ~Syncable(Entry))
        => (mirror' = mirror /\ index' = index /\ lastCalls' = {})]_vars

\* C8 witness: a change of doc1 with an unsupported MIME type was passed over
\* while doc1 is mirrored.
C8_UnsupportedPassedOver ==
    /\ pc = "loop"
    /\ i = 2
    /\ page.changes[1] = ChUnsupported
    /\ "doc1" \in DOMAIN mirror
    /\ mirror = store0.mirror

\* C9: after a page, the invocation returns the remote's next-page cursor,
\* and undefined exactly when there is none; the workflow loop that feeds
\* each returned cursor to the next invocation ends (with undefined, or with
\* an error caught or raised), and when it ends with undefined after a page
\* it has consumed every entry up to the end of the feed.
C9_ReturnsUntilExhausted ==
    /\ [][ReturnsAfterPage =>
            (/\ result'.value = page.nextPageToken
             /\ (result'.value = Undefined <=> page.newStartPageToken # Undefined))]_vars
    /\ [](chain.st = "done" =>
            (/\ result.value = Undefined
             /\ syncToken = Some(chain.from + chain.n)
             /\ frontier[1] >= chain.from + chain.n))
    /\ <>(pc = "idle" /\ chain.st \in {"done", "broken"})

\* C9 witness: the workflow loop consumed a feed of three entries in two
\* invocations and got undefined.
C9_LoopStopped ==
    /\ pc = "idle"
    /\ chain = [st |-> "done", from |-> 1, n |-> 3]
    /\ result = Outcome("returned", Undefined, "none")
    /\ Len(feed) = 3

\* C10: the catch block turns a 403 into a return of undefined and throws
\* every other error again; no invocation that reaches the catch block has
\* written the persisted token.
C10_LostAccessSwallowed ==
    /\ [][(pc = "catch" /\ pc' = "idle") =>
            (/\ syncToken' = syncToken
             /\ result' = IF exc = "403"
                          THEN Outcome("returned", Undefined, "403")
                          ELSE Outcome("raised", Undefined, exc))]_vars
    /\ [][(pc # "idle" /\ syncToken' # syncToken) => pc' = "idle"]_vars
    /\ [][pc' = "catch" => syncToken' = syncToken]_vars

\* C10 witness: a 403 in the middle of a page, after an entry had changed the
\* mirror store, ended in a return of undefined with the token still at 1.
C10_ReturnedUndefinedOn403 ==
    /\ pc = "idle"
    /\ result = Outcome("returned", Undefined, "403")
    /\ syncToken = Some(1)
    /\ mirror # store0.mirror

\* ------------------------------------------------ claims: garbage collector
\* The object of id exists on the drive, is not in the bin, and one of the
\* folders above it is among folders.
LiveInScope(r, id, folders) ==
    /\ r[id].status # "gone"
    /\ ~RemoteTrashed(r, id)
    /\ \E k \in 1..Len(AncestorsOf(r[id].parent)) :
          AncestorsOf(r[id].parent)[k] \in folders

\* A step in which the task of the selected row id runs to its end.
GcTaskDone(id) ==
    /\ gc.pc = "tasks"
    /\ <<"own", id>> \in gc.todo
    /\ gc'.done = gc.done \cup {<<"own", id>>}

\* C11: the task of a row garbageCollector selected deletes the row and its
\* downstream document when the object is not found on the drive, is in the
\* bin or is under none of the selected folders; otherwise it keeps the row
\* and its document and sets lastSeenTs to the current time, which is later
\* than the lastSeenTs that made the row a candidate.  A call that returns has
\* run the task of every row it selected.
C11_CandidateDeletedOrRefreshed ==
    /\ [][\A id \in RemoteIds :
            GcTaskDone(id) /\ id \in DOMAIN mirror =>
                IF LiveInScope(remote, id, gc.folders)
                THEN /\ id \in DOMAIN mirror'
                     /\ mirror'[id] = [mirror[id] EXCEPT !.lastSeenTs = now]
                     /\ mirror[id].lastSeenTs < gc.cutoff
                     /\ gc.cutoff <= now
                     /\ index' = index
                ELSE /\ id \notin DOMAIN mirror'
                     /\ mirror[id].dustFileId \notin index']_vars
    /\ [][gc.pc = "tasks" /\ gc'.result.kind = "returned"
            => gc.done = gc.files]_vars

\* Cutoff 2: doc2, last seen at 1 and still in scope, has been refreshed;
\* doc1, gone from the drive, has been deleted with its document.
C11_StaleSurvivesGoneDeleted ==
    /\ gc.pc = "tasks"
    /\ gc.cutoff = 2
    /\ gc.done = {<<"own", "doc1">>, <<"own", "doc2">>}
    /\ "doc1" \notin DOMAIN mirror
    /\ getDocumentId("doc1") \notin index
    /\ "doc2" \in DOMAIN mirror
    /\ mirror["doc2"].lastSeenTs = 2
    /\ getDocumentId("doc2") \in index

\* C12: garbageCollector selects only rows of its connector whose lastSeenTs
\* is unset or strictly before the cutoff, at most one page of them, and its
\* steps change no other row: a row it did not select, so every row with
\* lastSeenTs at or after the cutoff, keeps its fields and its document, no
\* row is created, and the rows of the other connector stay as they are.
C12_OnlyStaleRowsOfConnector ==
    /\ [][gc.pc = "idle" /\ gc'.pc = "tasks" =>
            /\ \A key \in gc'.files :
                  /\ key[1] = "own"
                  /\ key[2] \in DOMAIN mirror
                  /\ \/ mirror[key[2]].lastSeenTs = NullTs
                     \/ mirror[key[2]].lastSeenTs < gc'.cutoff
            /\ Cardinality(gc'.files) <= GcLimit
            /\ mirror' = mirror
            /\ index' = index
            /\ foreign' = foreign]_vars
    /\ [][gc.pc = "tasks" =>
            /\ foreign' = foreign
            /\ DOMAIN mirror' \subseteq DOMAIN mirror
            /\ \A id \in DOMAIN mirror :
                  \/ <<"own", id>> \in gc.files
                  \/ /\ id \in DOMAIN mirror'
                     /\ mirror'[id] = mirror[id]
                     /\ (mirror[id].dustFileId \in index')
                            = (mirror[id].dustFileId \in index)
            /\ \A id \in DOMAIN mirror :
                  mirror[id].lastSeenTs # NullTs
                      /\ mirror[id].lastSeenTs >= gc.cutoff
                  => id \in DOMAIN mirror' /\ mirror'[id] = mirror[id]]_vars

\* Cutoff 2 with three stale rows: a page of two has been processed, the
\* third stale row and the stale row of the other connector are as before.
C12_PageOfTwoOthersUntouched ==
    /\ gc.pc = "tasks"
    /\ gc.cutoff = 2
    /\ gc.todo = {}
    /\ gc.deleted = {<<"own", "doc1">>, <<"own", "sub1">>}
    /\ "doc2" \in DOMAIN mirror
    /\ mirror["doc2"] = StaleRow("doc2", "sub1", 1)
    /\ foreign = ForeignSeed

\* A step in which garbageCollector returns.
GcReturns == gc.pc = "tasks" /\ gc'.pc = "idle" /\ gc'.result.kind = "returned"

\* C13 as stated: the number garbageCollector returns is the number of rows
\* it deleted during the call.
C13_ReturnsReclaimedCount ==
    [][GcReturns => gc'.result.count = Cardinality(gc.deleted)]_vars

\* C13 amended: the number garbageCollector returns is the number of rows it
\* selected, each of which it has deleted or refreshed; the rows it deleted
\* are at most that many.
C13_ReturnsSelectedCount ==
    [][GcReturns =>
          /\ gc'.result.count = Cardinality(gc.done)
          /\ gc'.result.count = Cardinality(gc.files)
          /\ gc'.result.count >= Cardinality(gc.deleted)
          /\ gc'.result.count <= GcLimit]_vars

\* A call has returned 2 although every row is still there: both rows it
\* selected were refreshed.
C13_ReturnedTwoDeletedNone ==
    /\ gc.pc = "idle"
    /\ gc.result = GcResult("garbageCollector", "returned", 2, FALSE)
    /\ DOMAIN mirror = {"doc1", "sub1", "doc2"}
    /\ \E id \in DOMAIN mirror : mirror[id].lastSeenTs = now

\* --------------------------------------------------- claims: watched scope
\* The folders above object id, resolved on the drive, reach a folder of
\* folders.
UnderFolders(r, id, folders) ==
    \E k \in 1..Len(AncestorsOf(r[id].parent)) :
        AncestorsOf(r[id].parent)[k] \in folders

\* The garbage-collection workflow has run to its end: the last call found no
\* candidate.
SweepDone ==
    /\ gc.pc = "idle"
    /\ gc.result = GcResult("garbageCollector", "returned", 0, FALSE)

\* C14: once a folder has left the watched scope, (1) when garbage collection
\* with a cutoff later than every lastSeenTs has been repeated until a call
\* finds no candidate, every row left is of an object that is on the drive,
\* out of the bin and under a folder still watched; (2) incremental sync
\* applying a change of an object under no watched folder leaves no row and
\* no document of it; (3) no step of either engine removes the row of an
\* object that is on the drive, out of the bin and under a watched folder.
C14_ScopeMonotone ==
    /\ [](SweepDone =>
            \A id \in DOMAIN mirror : LiveInScope(remote, id, watched))
    /\ [][\A id \in {"doc1", "sub1", "doc2"} :
            /\ Applies
            /\ page.changes[i] = ChangeOf(remote, id)
            /\ remote[id].status # "gone"
            /\ ~UnderFolders(remote, id, watched)
            => /\ id \notin DOMAIN mirror'
               /\ getDocumentId(id) \notin index']_vars
    /\ [][\A id \in DOMAIN mirror :
            LiveInScope(remote, id, watched') =>
                /\ id \in DOMAIN mirror'
                /\ (mirror[id].dustFileId \in index
                        => mirror[id].dustFileId \in index')]_vars

\* F1 has left the scope and doc1 lives in F2: garbage collection has run to
\* its end, sub1 and doc2 are gone from the mirror, doc1 is kept.
C14_RemovedFolderSwept ==
    /\ SweepDone
    /\ watched = {"F2"}
    /\ DOMAIN store0.mirror = {"doc1", "sub1", "doc2"}
    /\ DOMAIN mirror = {"doc1"}
    /\ index = {getDocumentId("doc1")}
    /\ mirror["doc1"].lastSeenTs = now

\* F2 has left the scope and doc1 lives in F2: incremental sync has applied
\* the change of doc1 and no row of it is left, while sub1 and doc2 stay.
C14_RemovedFolderSynced ==
    /\ watched = {"F1"}
    /\ pc = "loop"
    /\ i = 2
    /\ page.changes[1] = ChangeOf(remote, "doc1")
    /\ remote["doc1"] = RemoteObject("live", "F2")
    /\ DOMAIN mirror = {"sub1", "doc2"}
    /\ ~SweepDone
    /\ gc.result.op = "none"

\* ------------------------------------------- claims: shouldGarbageCollect
\* A step in which shouldGarbageCollect returns.
ShouldGcReturns ==
    /\ gc'.result.op = "shouldGarbageCollect"
    /\ gc'.result.kind = "returned"
    /\ gc' # gc

\* C15: shouldGarbageCollect returns true exactly when one of the selected
\* folders is not found on the drive, false when every selected folder is
\* found (a folder in the bin is found) and when no folder is selected, and it
\* changes neither the mirror store, nor the downstream index, nor the sync
\* token, nor the selection.
C15_TrueIffWatchedFolderLost ==
    [][ShouldGcReturns =>
          /\ gc'.result.flag = (\E f \in watched : remote[f].status = "gone")
          /\ (watched = {} => gc'.result.flag = FALSE)
          /\ mirror' = mirror
          /\ index' = index
          /\ foreign' = foreign
          /\ syncToken' = syncToken
          /\ watched' = watched]_vars

\* F1 is lost while F2 is found: the precheck has answered true.
C15_LostFolderReported ==
    /\ gc.result = GcResult("shouldGarbageCollect", "returned", 0, TRUE)
    /\ watched = {"F1", "F2"}
    /\ remote["F1"].status = "gone"
    /\ remote["F2"].status = "live"

\* Nothing is selected: the precheck has answered false.
C15_EmptyScopeAnswersFalse ==
    /\ gc.result = GcResult("shouldGarbageCollect", "returned", 0, FALSE)
    /\ watched = {}
    /\ remote["F1"].status = "gone"

\* ------------------------------------------------------ claims: syncFiles
\* A step in which syncFiles leaves the lookup of its folder.
FsLooksUp == fs.pc = "lookup" /\ fs'.pc # "lookup"

\* The folder of the invocation has a row with lastSeenTs at or after
\* startSyncTs.
FolderAlreadyVisited ==
    /\ fs.folder \in DOMAIN mirror
    /\ mirror[fs.folder].lastSeenTs >= fs.startSyncTs

\* C16 as stated: syncFiles invoked without a cursor on a folder already
\* visited in the generation makes no remote call, changes nothing in the
\* mirror store and returns the empty result.
C16_RevisitNoRemoteCall ==
    [][FsLooksUp /\ fs.token = Undefined /\ FolderAlreadyVisited =>
          /\ fs'.calls = {}
          /\ mirror' = mirror
          /\ fs'.pc = "idle"
          /\ fs'.result = FsEmpty]_vars

\* C16 amended: syncFiles invoked without a cursor on a folder already
\* visited in the generation fetches the folder from the drive and makes no
\* other remote call (no listing, no content fetch), changes nothing in the
\* mirror store or the downstream index, and returns the empty result.
C16_RevisitOnlyFetchesFolder ==
    [][FsLooksUp /\ fs.token = Undefined /\ FolderAlreadyVisited =>
          /\ fs'.calls = {"files.get"}
          /\ mirror' = mirror
          /\ index' = index
          /\ fs'.pc = "idle"
          /\ fs'.result = FsEmpty]_vars

\* F1 was marked visited at the start time of the generation and has a child
\* on the drive: the invocation has returned the empty result after the one
\* fetch of the folder.
C16_VisitedFolderShortCircuited ==
    /\ fs.pc = "idle"
    /\ fs.result = FsEmpty
    /\ fs.folder = "F1"
    /\ fs.calls = {"files.get"}
    /\ remote["F1"].status = "live"
    /\ "F1" \in DOMAIN mirror
    /\ mirror["F1"].lastSeenTs = fs.startSyncTs
    /\ fs.startSyncTs = 1
    /\ FolderChildren(remote, "F1", FALSE) # <<>>

\* A step of markFolderAsVisited on folder.
MarksVisited(folder) ==
    /\ fs.pc = "idle"
    /\ fs'.pc = "idle"
    /\ fs'.result.op = "markFolderAsVisited"
    /\ fs'.folder = folder
    /\ remote' = remote
    /\ now' = now

\* C17: when the drive does not find the folder passed to syncFiles, the
\* invocation does not raise: it returns the empty result without listing and
\* leaves the mirror store and the downstream index as they are; and
\* markFolderAsVisited on a folder the drive does not find returns without
\* writing a row.
C17_MissingFolderAbandoned ==
    /\ [][FsLooksUp /\ remote[fs.folder].status = "gone" =>
            /\ fs'.pc = "idle"
            /\ fs'.result = FsEmpty
            /\ "files.list" \notin fs'.calls
            /\ mirror' = mirror
            /\ index' = index]_vars
    /\ [][\A folder \in {"F1", "sub1"} :
            MarksVisited(folder) /\ remote[folder].status = "gone" =>
                /\ mirror' = mirror
                /\ fs'.result.kind = "returned"]_vars

\* sub1 is gone from the drive and has no row: syncFiles on it has returned
\* the empty result after the one fetch of the folder.
C17_MissingFolderReturnedEmpty ==
    /\ fs.pc = "idle"
    /\ fs.result = FsEmpty
    /\ fs.folder = "sub1"
    /\ remote["sub1"].status = "gone"
    /\ "sub1" \notin DOMAIN mirror
    /\ fs.calls = {"files.get"}

FsTaskDone(k) ==
    /\ fs.pc = "tasks"
    /\ k \in fs.todo
    /\ fs'.done = fs.done \cup {k}

\* C20: the task of a listed child in the bin deletes its row and its
\* document, if any, and does not count; the task of a child out of the bin
\* is syncOneFile, and counts exactly when syncOneFile reports success, which
\* for a document leaves the row and the document syncOneFile writes; the
\* count returned is the number of tasks that reported success, at most the
\* number of children listed.
C20_TrashedDeletedOthersSynced ==
    /\ [][\A k \in 1..FsPageSize :
            FsTaskDone(k) =>
                LET file == fs.files[k]
                IN  IF file.trashed
                    THEN /\ file.id \notin DOMAIN mirror'
                         /\ getDocumentId(file.id) \notin index'
                         /\ k \notin fs'.results
                    ELSE IF k \in fs'.results
                    THEN /\ mirror' = syncOneFile(mirror, index, file, now).mirror
                         /\ index' = syncOneFile(mirror, index, file, now).index
                         /\ file.mimeType # FOLDER_MIME
                    ELSE /\ mirror' = mirror
                         /\ index' = index]_vars
    /\ [][fs.pc = "tasks" /\ fs'.pc = "idle"
            /\ fs'.result.kind = "returned" =>
            /\ fs'.result.count = Cardinality(fs.results)
            /\ fs'.result.count <= Len(fs.files)
            /\ \A k \in fs.results : ~fs.files[k].trashed]_vars

\* The page of F1 lists doc1, in the bin, and sub1: the row and the document
\* of doc1 have been deleted, and the invocation has returned count 0 with
\* sub1 as a subfolder.
C20_TrashedChildDeleted ==
    /\ fs.pc = "idle"
    /\ fs.folder = "F1"
    /\ fs.result = FsResult("syncFiles", "returned", Undefined, 0, {"sub1"})
    /\ "doc1" \in DOMAIN store0.mirror
    /\ "doc1" \notin DOMAIN mirror
    /\ getDocumentId("doc1") \notin index
    /\ remote["doc1"].status = "trashed"

\* C19: in garbageCollector the failure of the task of one candidate is
\* isolated: the call ends only when the task of every candidate has run, and
\* it ends by returning, not by raising.
C19_CandidateFailureIsolated ==
    [][gc.pc = "tasks" /\ gc'.pc = "idle" =>
          /\ gc.todo = {}
          /\ gc'.result.kind = "returned"]_vars

\* ------------------------------------------------------------ C21 .. C26
\* The webhooks of drive d that no other webhook has superseded.
NonSuperseded(w, d) ==
    {id \in DOMAIN w :
        w[id].driveId = d /\ w[id].renewedByWebhookId = Undefined}

\* Those of them that have not expired at time t.
ActiveWebhooks(w, d, t) ==
    {id \in NonSuperseded(w, d) : ~(w[id].expiresAt < t)}

\* A pass of renewWebhooks has run its loop and its cleanup and returns.
RwReturns == rw.pc = "return"

\* The rows a pass selected.
RwSelected == {rw.list[k] : k \in 1..Len(rw.list)}

\* C21: when a pass of renewWebhooks returns, every webhook it selected was
\* retired (drive lost), pushed down the line (renewal failed) or renewed, none
\* was renewed twice, and the webhook that renewed it is the only one of its
\* drive whose renewedByWebhookId is null.
C21_RenewedOnceOneLeft ==
    RwReturns =>
        /\ rw.passed = {}
        /\ \A p, q \in rw.renewed : p[1] = q[1] => p = q
        /\ \A p \in rw.renewed :
              NonSuperseded(webhooks, webhooks[p[2]].driveId) = {p[2]}

\* C22: whenever no pass of renewWebhooks is in progress, whatever passes
\* have run (with successes, failures and stops, at whatever hour), no drive
\* has two webhooks that are both non-superseded and non-expired.
C22_OneActivePerDrive ==
    rw.pc = "idle" =>
        \A d \in DriveIds : Cardinality(ActiveWebhooks(webhooks, d, now)) <= 1

\* The loop is at a webhook whose drive the remote source no longer shows, and
\* the step it takes is neither a lookup that throws nor a stop.
RwFindsDriveLost ==
    /\ rw.pc = "loop"
    /\ getGoogleDriveObject(remote, webhooks[RwHand].driveId) = Undefined
    /\ rw'.pc \in {"loop", "sweep"}

\* C23: when renewWebhooks finds that the drive of a selected webhook is no
\* longer accessible, the step removes that webhook's row and nothing else,
\* registers no webhook in its place and leaves the connector's status as it
\* was.
C23_LostDriveRetiredNotReplaced ==
    [][RwFindsDriveLost =>
          /\ DOMAIN webhooks' = DOMAIN webhooks \ {RwHand}
          /\ \A id \in DOMAIN webhooks' : webhooks'[id] = webhooks[id]
          /\ created' = created
          /\ errorType' = errorType
          /\ rw'.retired = rw.retired \cup {RwHand}]_vars

\* Witness for C23: a pass returns after it retired the webhook of F2, which
\* is left without any webhook, the connector not marked failed.
C23_DriveLeftWithoutWebhook ==
    /\ RwReturns
    /\ rw.retired # {}
    /\ \A id \in DOMAIN webhooks : webhooks[id].driveId # "F2"
    /\ errorType = "none"

\* The loop links the webhook in hand to the one ensureWebhookForDriveId
\* registered.
RwLinks == rw.pc = "link" /\ rw'.pc \in {"loop", "sweep"}

\* C24: a successful renewal keeps the old webhook's row and sets its
\* renewedByWebhookId to the id of the new webhook, whose row is there too;
\* and no step removes a superseded row unless its expiresAt lies more than
\* the retention window back.
C24_OldKeptUntilRetentionOver ==
    [][/\ RwLinks =>
            /\ DOMAIN webhooks' = DOMAIN webhooks
            /\ rw.res # Undefined
            /\ rw.res[1] \in DOMAIN webhooks' \ {RwHand}
            /\ webhooks' =
                  [webhooks EXCEPT ![RwHand].renewedByWebhookId = rw.res]
       /\ \A id \in DOMAIN webhooks \ DOMAIN webhooks' :
             webhooks[id].renewedByWebhookId # Undefined =>
                webhooks[id].expiresAt + SweepRetention < now]_vars

\* Witness for C24: after a pass the old webhook of F1, not yet expired, and
\* the webhook that renewed it are both in the table.
C24_OldAndNewCoexist ==
    /\ RwReturns
    /\ \E p \in rw.renewed :
          /\ {p[1], p[2]} \subseteq DOMAIN webhooks
          /\ webhooks[p[1]].renewedByWebhookId = Some(p[2])
          /\ webhooks[p[2]].renewedByWebhookId = Undefined
          /\ ~(webhooks[p[1]].expiresAt < now)

\* The catch block of the loop runs for the webhook in hand.
RwCatches == rw.pc = "catch" /\ rw'.pc \in {"loop", "sweep"}

\* C25: when the renewal of a webhook fails, the catch block keeps the row and
\* pushes its renewAt two hours past now, touching nothing else of the table;
\* it marks the connector failed when the failure is one of authorization and
\* leaves the connector's status alone otherwise; the webhook stays
\* non-superseded, the loop moves on to the next row, and when the pass
\* returns every row it selected has been dealt with and none of the rows it
\* pushed would be selected by a pass run at once.
C25_FailureDefersRenewal ==
    /\ [][RwCatches =>
            /\ webhooks' =
                  [webhooks EXCEPT ![RwHand].renewAt = now + RenewDeferral]
            /\ webhooks'[RwHand].renewedByWebhookId = Undefined
            /\ RwIsAuthFailure(rw.e) => errorType' = "oauth_token_revoked"
            /\ ~RwIsAuthFailure(rw.e) => errorType' = errorType
            /\ rw'.k = rw.k + 1
            /\ RwHand \notin RwCandidates(webhooks', now)]_vars
    /\ [](RwReturns =>
            /\ RwSelected =
                  {p[1] : p \in rw.renewed} \cup rw.retired \cup
                  rw.deferred \cup rw.passed
            /\ \A id \in rw.deferred :
                  /\ id \in DOMAIN webhooks
                  /\ webhooks[id].renewedByWebhookId = Undefined
                  /\ id \notin RwCandidates(webhooks, now))

\* Witness for C25: a pass returns that first failed to renew one webhook,
\* then renewed another; the connector is not marked failed, so the failure
\* was not one of authorization.
C25_FailedThenRenewedNext ==
    /\ RwReturns
    /\ Len(rw.list) = 2
    /\ rw.list[1] \in rw.deferred
    /\ rw.list[2] \in {p[1] : p \in rw.renewed}
    /\ errorType = "none"

\* The cleanup at the end of a pass runs.
RwSweeps == rw.pc = "sweep" /\ rw'.pc = "return"

\* C26: the cleanup at the end of renewWebhooks removes only rows that are
\* superseded and whose expiresAt lies more than the retention window back, at
\* most a page of them, and changes no row it keeps: a non-superseded webhook
\* and a webhook that has not expired are never removed by it.
C26_SweepOnlySupersededAndExpired ==
    [][RwSweeps =>
          /\ \A id \in DOMAIN webhooks \ DOMAIN webhooks' :
                /\ webhooks[id].renewedByWebhookId # Undefined
                /\ webhooks[id].expiresAt < now - SweepRetention
                /\ webhooks[id].expiresAt < now
          /\ Cardinality(DOMAIN webhooks \ DOMAIN webhooks') <= RwPageSize
          /\ DOMAIN webhooks' \subseteq DOMAIN webhooks
          /\ \A id \in DOMAIN webhooks' : webhooks'[id] = webhooks[id]]_vars

\* Witness for C26: a cleanup has removed a renewed webhook and has kept two
\* expired ones, one that was never renewed and one that was renewed but
\* expired less than the retention window ago.
C26_SweptRenewedKeptOthers ==
    /\ RwReturns
    /\ rw.swept # {}
    /\ \E id \in DOMAIN webhooks :
          /\ webhooks[id].renewedByWebhookId = Undefined
          /\ webhooks[id].expiresAt < now
    /\ \E id \in DOMAIN webhooks :
          /\ webhooks[id].renewedByWebhookId # Undefined
          /\ webhooks[id].expiresAt < now

\* ------------------------------------------------------------ C27 .. C29
\* The executions open for an operation of a connector.
OpenRuns(op, connectorId) ==
    {r \in runs.open : r.op = op /\ r.connectorId = connectorId}

\* The operations launched by terminate and start.
RestartedOps == {"googleDriveFullSync", "googleDriveGarbageCollector"}

\* C27: a Full-Sync or Garbage-Collector launch first terminates the run open
\* under its workflow id, a missing run being no error, and only then starts
\* the new one: at any time a connector has at most one Full-Sync run and at
\* most one Garbage-Collector run open, the terminate step of a launcher
\* leaves no run open under its id, touches no other run and ends in an error
\* only when the orchestrator cannot be reached, and a run appears only by the
\* start step of a launcher that has terminated, which returns the workflow
\* id.
C27_TerminateThenStart ==
    /\ [](\A op \in RestartedOps : \A connectorId \in Connectors :
            Cardinality(OpenRuns(op, connectorId)) <= 1)
    /\ [][\A c \in Callers :
            launch[c].pc = "terminate" /\ launch'[c] # launch[c] =>
                IF launch'[c].pc = "start"
                THEN /\ Running(runs', LaunchWorkflowId(launch[c])) = {}
                     /\ runs'.open =
                            runs.open \ Running(runs,
                                                LaunchWorkflowId(launch[c]))
                ELSE /\ launch'[c].result =
                            LaunchResult("err", "orchestrator unavailable")
                     /\ runs' = runs]_vars
    /\ [][\A r \in runs'.open \ runs.open :
            \E c \in Callers :
                /\ launch[c].pc = "start"
                /\ r.workflowId = LaunchWorkflowId(launch[c])
                /\ r.op = launch[c].op
                /\ r.connectorId = launch[c].connectorId
                /\ Running(runs, r.workflowId) = {}
                /\ launch'[c] = LaunchIdle(LaunchResult("ok", r.workflowId))]_vars

\* Witness for C27: a launcher has returned the workflow id of the run it
\* started after a run was terminated, and that run is open.
C27_RunReplaced ==
    /\ runs.terminated >= 1
    /\ \E c \in Callers : \E r \in runs.open :
          /\ r.n >= 2
          /\ r.op \in RestartedOps
          /\ launch[c] = LaunchIdle(LaunchResult("ok", r.workflowId))

\* A signal for the incremental sync of a connector came in within the
\* debounce window that ends now.
SignalledLately(connectorId) ==
    LET workflowId == googleDriveIncrementalSyncWorkflowId(connectorId)
    IN  /\ workflowId \in DOMAIN runs.signalledAt
        /\ now - runs.signalledAt[workflowId]
              <= GDRIVE_INCREMENTAL_SYNC_DEBOUNCE_SEC

\* C28: the triggers of the incremental sync are coalesced. A launcher is let
\* through to the orchestrator only when no signal of its connector came in
\* within the debounce window and no other call for the connector is on its
\* way, so the signals of a connector reaching the orchestrator lie more than
\* a window apart; a call that returns the rate-limit error leaves the
\* orchestrator as it was; and no launcher step terminates or restarts an
\* open run: the run stays, with the activity it executes, and the call that
\* finds it open only signals it.
C28_TriggersCoalesced ==
    /\ [][\A c \in Callers :
            launch[c].pc = "idle" /\ launch'[c].pc = "signalWithStart" =>
                /\ ~SignalledLately(launch'[c].connectorId)
                /\ \A b \in Callers \ {c} :
                      ~(/\ launch[b].pc = "signalWithStart"
                        /\ launch[b].connectorId = launch'[c].connectorId)]_vars
    /\ [][\A c \in Callers :
            launch[c].pc = "signalWithStart" /\ launch'[c].pc = "idle"
                /\ launch'[c].result.kind = "ok" =>
                    ~SignalledLately(launch[c].connectorId)]_vars
    /\ [][\A c \in Callers :
            /\ launch'[c] # launch[c]
            /\ launch'[c] = LaunchIdle(LaunchResult("err", "RateLimitError"))
            => runs' = runs /\ limiter' = limiter]_vars
    /\ [][launch' # launch =>
            /\ runs'.terminated = runs.terminated
            /\ \A r \in runs.open :
                  \E after \in runs'.open :
                      /\ after.n = r.n
                      /\ after.workflowId = r.workflowId
                      /\ after.activity = r.activity
            /\ \A c \in Callers :
                  launch[c].pc = "signalWithStart"
                      /\ Running(runs, LaunchWorkflowId(launch[c])) # {}
                      /\ launch'[c].result.kind = "ok" =>
                          /\ runs'.started = runs.started
                          /\ \A r \in Running(runs', LaunchWorkflowId(launch[c])) :
                                r.signaled]_vars

\* Witness for C28: a call has signalled the incremental sync of a connector
\* while it executes an activity, and a second call in the same window has
\* come back with the rate-limit error.
C28_SignalledAndRefused ==
    \E a \in Callers : \E b \in Callers \ {a} : \E r \in runs.open :
        /\ launch[a] = LaunchIdle(LaunchResult("ok", r.workflowId))
        /\ launch[b] = LaunchIdle(LaunchResult("err", "RateLimitError"))
        /\ r.activity # Undefined
        /\ r.signaled
        /\ runs.signalledAt[r.workflowId] = now
        /\ now > 0

\* The incrementalSync invocations in flight for a drive of a connector: the
\* open runs that execute the activity for it.
IncrementalSyncsInFlight(connectorId, driveId) ==
    {r \in OpenRuns("googleDriveIncrementalSync", connectorId) :
        r.activity = Some(driveId)}

\* C29: whatever the interleaving of triggers, launches and workflow steps, at
\* most one incrementalSync invocation is in flight for a drive of a connector,
\* because every launch for the connector lands in the one run open under the
\* connector's workflow id.
C29_OneInvocationPerDrive ==
    /\ \A connectorId \in Connectors :
          Cardinality(OpenRuns("googleDriveIncrementalSync", connectorId)) <= 1
    /\ \A connectorId \in Connectors : \A driveId \in DriveIds :
          Cardinality(IncrementalSyncsInFlight(connectorId, driveId)) <= 1

\* Witness for C29: the incremental syncs of two connectors both execute the
\* activity for drive F1 while a new launch for one of them is on its way to
\* the orchestrator.
C29_LaunchDuringInvocation ==
    /\ \A connectorId \in Connectors :
          IncrementalSyncsInFlight(connectorId, "F1") # {}
    /\ \E c \in Callers :
          /\ launch[c].pc = "signalWithStart"
          /\ launch[c].connectorId \in Connectors

\* ------------------------------------------------------------------- C30
\* The row of a folder before and after a step holds the same data, seen no
\* earlier than before.
SameRowSeenLater(before, after) ==
    /\ after.dustFileId = before.dustFileId
    /\ after.name = before.name
    /\ after.mimeType = before.mimeType
    /\ after.parentId = before.parentId
    /\ after.lastSeenTs >= before.lastSeenTs

\* C30: the folder upsert of incrementalSync and markFolderAsVisited are
\* idempotent. Applied to a folder that has its row already, with the same
\* data, a step leaves the one row under the folder's id, with the same
\* document id, name, type and parent and a lastSeenTs not earlier than
\* before; every row stays keyed by a remote id whose document id it carries;
\* the row either step writes is stamped with the time of the step; and the
\* downstream index is not touched.
C30_UpsertIdempotent ==
    [][/\ \A id \in DOMAIN mirror :
             /\ id \in DOMAIN mirror'
             /\ SameRowSeenLater(mirror[id], mirror'[id])
       /\ \A id \in DOMAIN mirror' :
             /\ id \in RemoteIds
             /\ mirror'[id].dustFileId = getDocumentId(id)
       /\ Cardinality(DOMAIN mirror') <= Cardinality(DOMAIN mirror) + 1
       /\ pc = "loop" /\ i' = i + 1 =>
             /\ "sub1" \in DOMAIN mirror'
             /\ mirror'["sub1"].lastSeenTs = now
       /\ fs' # fs =>
             /\ fs'.folder \in DOMAIN mirror'
             /\ mirror'[fs'.folder].lastSeenTs = now
       /\ index' = index]_vars

\* Witness for C30: incrementalSync has applied both entries of the folder
\* sub1, and markFolderAsVisited has written the same folder again an hour
\* later.
C30_FolderWrittenThrice ==
    /\ pc = "loop"
    /\ i = 3
    /\ fs.folder = "sub1"
    /\ fs.result.op = "markFolderAsVisited"
    /\ "sub1" \in DOMAIN mirror
    /\ mirror["sub1"].lastSeenTs = now
    /\ now = 2

\* ------------------------------------------------------------ C31 .. C34
\* The store after mutation first and then mutation second of the row of the
\* object file, both at time t.
MutatedTwice(m, idx, first, second, file, t) ==
    Mutated(Mutated(m, idx, first, file, t).mirror,
            Mutated(m, idx, first, file, t).index, second, file, t)

\* C31: the mutations of the mirror store are idempotent and commutative per
\* key: on every store the components can leave, and for every live object,
\* applying a mutation twice gives the store applying it once gives, and
\* applying two mutations gives the same store in either order.
C31_MutationsCommute ==
    \A id \in MutatedIds :
        LET file == getGoogleDriveObject(remote, id)
        IN  file # Undefined =>
              \A first \in MutationKinds : \A second \in MutationKinds :
                  /\ MutatedTwice(mirror, index, first, first, file[1], now)
                        = Mutated(mirror, index, first, file[1], now)
                  /\ MutatedTwice(mirror, index, first, second, file[1], now)
                        = MutatedTwice(mirror, index, second, first, file[1],
                                       now)

\* A change entry whose file resource lacks a required field.
EntryLacksField(change) ==
    /\ change.changeType = "file"
    /\ change.file # Undefined
    /\ \/ change.file[1].id = ""
       \/ change.file[1].name = ""
       \/ change.file[1].mimeType = ""
       \/ change.file[1].createdTime = ""

\* C32: an entry of the change feed, or a listed child, that lacks id, name,
\* mimeType or createdTime makes the operation raise: when incrementalSync
\* leaves such an entry it goes to its catch block, which raises to the caller
\* with the persisted cursor as it was, and syncFiles hands every child of the
\* listed page on to its tasks or raises.
C32_MissingFieldRaises ==
    /\ [][(/\ pc = "loop"
           /\ i <= Len(page.changes)
           /\ EntryLacksField(page.changes[i])
           /\ (i' # i \/ pc' # pc))
          => (pc' = "catch" /\ exc' = "other" /\ syncToken' = syncToken)]_vars
    /\ [][(pc = "catch" /\ pc' = "idle")
          => (result'.kind = "raised" /\ syncToken' = syncToken)]_vars
    /\ [][(fs.pc = "list" /\ fs' # fs)
          => \/ fs'.result.kind = "raised"
             \/ /\ fs'.pc = "tasks"
                /\ \E lag \in BOOLEAN :
                      Len(fs'.files)
                         = Len(filesList(remote, fs.folder,
                                         IF fs.token = Undefined THEN 1
                                         ELSE fs.token[1], lag).files)]_vars

\* C33: at no point of a syncFiles call are more than 10 of its per-file
\* tasks running, and at no point of a garbageCollector call are more than 5
\* of its per-row tasks running, however many items the page holds.
C33_FanOutBounded ==
    /\ Cardinality(FsInFlight(fs)) <= 10
    /\ Cardinality(GcInFlight(gc)) <= 5

\* The garbage collection of more than 5 rows has returned and the queue of
\* syncFiles runs 10 tasks while a child of the page waits.
C33_QueueFull ==
    /\ gc.result.kind = "returned"
    /\ gc.result.count > 5
    /\ fs.pc = "tasks"
    /\ Cardinality(FsInFlight(fs)) = 10
    /\ fs.todo # {}

\* The entries b and c are about the same file and c is not skipped.
Overrides(c, b) ==
    /\ ChangeBranch(c, getFoldersToSync) # "skip"
    /\ c.file[1].id = b.file[1].id

\* C34: incrementalSync applies the entries of a page one after another in
\* the order of the page: a pass of the loop applies the entry at the loop
\* index to the store as it stands and moves the index by one, so that of the
\* entries applied so far to one file, the row and the document of that file
\* are as the last of them leaves them.
C34_AppliedInOrder ==
    /\ [](pc = "loop" =>
            \A b \in 1..Len(page.changes) :
               LET ch == page.changes[b]
                   alone == ApplyChange(<<>>, {}, ch, getFoldersToSync, now)
               IN  (/\ b < i
                    /\ ChangeBranch(ch, getFoldersToSync)
                          \in {"sync", "folder", "delete"}
                    /\ \A c \in 1..Len(page.changes) :
                          (b < c /\ c < i) => ~Overrides(page.changes[c], ch))
                   => /\ (ch.file[1].id \in DOMAIN mirror)
                            = (ch.file[1].id \in DOMAIN alone.mirror)
                      /\ ch.file[1].id \in DOMAIN mirror
                            => mirror[ch.file[1].id]
                                  = alone.mirror[ch.file[1].id]
                      /\ (getDocumentId(ch.file[1].id) \in index)
                            = (getDocumentId(ch.file[1].id) \in alone.index))
    /\ [][(pc = "loop" /\ i <= Len(page.changes) /\ pc' = "loop" /\ i' # i)
          => /\ i' = i + 1
             /\ mirror' = ApplyChange(mirror, index, page.changes[i],
                                      getFoldersToSync, now).mirror
             /\ index' = ApplyChange(mirror, index, page.changes[i],
                                     getFoldersToSync, now).index]_vars

\* A page held an update of doc1 and then its move to the bin; both have been
\* applied and doc1 has neither row nor document, though it had both before.
C34_UpdateThenTrash ==
    /\ pc = "loop"
    /\ i = 3
    /\ page.changes = <<ChUpdate, ChTrash>>
    /\ "doc1" \in DOMAIN store0.mirror
    /\ "doc1" \notin DOMAIN mirror
    /\ getDocumentId("doc1") \notin index

\* C35: in a generation of the full sync that runs while incrementalSync
\* applies the change feed, syncFiles returns early on a folder it has found
\* on the drive (the visited short-circuit) only when the children of that
\* folder have been listed in the generation.
C35_ShortCircuitOnlyWalked ==
    [][(/\ fs.pc = "lookup"
        /\ fs'.pc = "idle"
        /\ getGoogleDriveObject(remote, fs.folder) # Undefined)
       => fs.folder \in fs.walked]_vars

\* ------------------------------------------------------------ C36 .. C40
\* C36: with the cutoff of the launch, no failure and no other writer, the
\* calls of garbageCollector repeated until one returns 0 come to that end:
\* every row whose task has run is gone or has a lastSeenTs not before the
\* cutoff, so it is not selected again, and a call returns 0 after finitely
\* many calls.
C36_CollectionTerminates ==
    /\ [](gc.pc = "tasks" =>
            \A key \in gc.done :
               \/ key[2] \notin DOMAIN mirror
               \/ ~IsStale(mirror[key[2]], gc.cutoff))
    /\ <>(gc.pc = "idle" /\ gc.result.kind = "returned" /\ gc.result.count = 0)

\* The collection has come to its end after more calls than one: of three
\* stale rows it destroyed the row of doc1 and refreshed those of sub1 and of
\* doc2.
C36_DrainedAfterWork ==
    /\ gc.pc = "idle"
    /\ gc.result.kind = "returned"
    /\ gc.result.count = 0
    /\ "doc1" \notin DOMAIN mirror
    /\ "sub1" \in DOMAIN mirror
    /\ mirror["sub1"].lastSeenTs >= GcLaunchTs
    /\ "doc2" \in DOMAIN mirror
    /\ mirror["doc2"].lastSeenTs >= GcLaunchTs

\* C37: deleteFile destroys the row of a document only once the downstream
\* removal of its document id has completed, so that a failed removal leaves
\* the row; for a folder no downstream delete is issued; deleteOneFile on an
\* object without a row makes no downstream call and writes nothing.
C37_RowOutlivesContent ==
    /\ [][\A id \in DOMAIN mirror :
            id \notin DOMAIN mirror'
               => IF mirror[id].mimeType = FOLDER_MIME
                  THEN index' = index /\ "index.delete" \notin lastCalls'
                  ELSE mirror[id].dustFileId \notin index]_vars
    /\ [][(pc = DeletePc[1] /\ pc' = "catch")
          => (mirror' = mirror /\ index' = index)]_vars
    /\ [][(/\ pc = "loop"
           /\ i <= Len(page.changes)
           /\ i' # i
           /\ ChangeBranch(page.changes[i], getFoldersToSync) = "delete"
           /\ page.changes[i].file[1].id \notin DOMAIN mirror)
          => /\ mirror' = mirror
             /\ index' = index
             /\ "index.delete" \notin lastCalls']_vars

\* deleteFile has removed the content of doc1 downstream and has not yet
\* destroyed its row.
C37_ContentGoneRowKept ==
    /\ pc = DeletePc[2]
    /\ "doc1" \in DOMAIN mirror
    /\ getDocumentId("doc1") \notin index
    /\ getDocumentId("doc1") \in store0.index
    /\ "index.delete" \in lastCalls

\* C38: the visited check of syncFiles is made on the first page only: an
\* invocation with a continuation cursor on a folder the drive still has goes
\* on to list the page, and the children of the page become its tasks, also
\* when the row of the folder has a lastSeenTs at or after startSyncTs.
C38_ContinuationListed ==
    /\ [][(/\ fs.pc = "lookup"
           /\ fs.token # Undefined
           /\ fs' # fs
           /\ getGoogleDriveObject(remote, fs.folder) # Undefined)
          => (fs'.pc = "list" /\ fs'.token = fs.token)]_vars
    /\ [][(fs.pc = "list" /\ fs.token # Undefined /\ fs'.pc = "tasks")
          => \E lag \in BOOLEAN :
                /\ Len(fs'.files)
                      = Len(filesList(remote, fs.folder, fs.token[1],
                                      lag).files)
                /\ fs'.todo = 1..Len(fs'.files)]_vars

\* The second page of F1 has been listed and a child of it waits for its task
\* although F1 was marked visited at the start time of the walk, or later,
\* between the two pages.
C38_SecondPageAfterMark ==
    /\ fs.pc = "tasks"
    /\ fs.token # Undefined
    /\ fs.folder = "F1"
    /\ fs.todo # {}
    /\ "F1" \in DOMAIN mirror
    /\ mirror["F1"].lastSeenTs # NullTs
    /\ mirror["F1"].lastSeenTs >= fs.startSyncTs

\* C39: a launch that is refused has no effect on the orchestrator: the
\* full-sync launcher called with a fromTs that is not null, and a launcher
\* called for a connector that does not exist, return without terminating,
\* signalling or starting a workflow, so that a launcher call that goes on to
\* the orchestrator is one for a connector that exists and with a null fromTs,
\* and a call that returns at once leaves the workflow executions as they are.
C39_RejectedLaunchInert ==
    /\ [](\A c \in Callers :
            launch[c].pc # "idle"
               => /\ launch[c].connectorId \in Connectors
                  /\ launch[c].fromTs = Undefined)
    /\ [][\A c \in Callers :
            (/\ launch[c].pc = "idle"
             /\ launch'[c] # launch[c]
             /\ launch'[c].pc = "idle") => runs' = runs]_vars

\* C39 as the code has it: a launcher call that goes on to the orchestrator
\* is one for a connector that exists and, for the full sync, with a fromTs
\* that is null or 0 (if (fromTs) takes 0 for no fromTs); a call that returns
\* at once, refused, leaves the workflow executions as they are.
C39_RefusedLaunchInert ==
    /\ [](\A c \in Callers :
            launch[c].pc # "idle"
               => /\ launch[c].connectorId \in Connectors
                  /\ launch[c].fromTs \in {Undefined, Some(0)})
    /\ [][\A c \in Callers :
            (/\ launch[c].pc = "idle"
             /\ launch'[c] # launch[c]
             /\ launch'[c].pc = "idle") => runs' = runs]_vars

\* A partial resync has been refused while the full sync of the connector
\* runs, and no execution has been terminated.
C39_RefusedWhileRunning ==
    /\ \E c \in Callers :
          /\ launch[c].pc = "idle"
          /\ launch[c].result
                = LaunchResult("err", "partial resync not supported")
    /\ OpenRuns("googleDriveFullSync", "own") # {}
    /\ runs.terminated = 0

\* C40: every launcher reports a failure of the orchestrator as an error
\* result and never raises: when the terminate of the previous run fails with
\* an error other than workflow-not-found, or the start or the signal of the
\* new run fails, the launcher returns Err and starts no workflow.
C40_FailureReturnsErr ==
    /\ [](\A c \in Callers : launch[c].result.kind # "raised")
    /\ [][\A c \in Callers :
            (/\ launch[c].pc # "idle"
             /\ launch'[c].pc = "idle"
             /\ launch'[c].result.value = "orchestrator unavailable")
            => (launch'[c].result.kind = "err" /\ runs' = runs)]_vars

====
